---- MODULE Spec2Model ----
(***************************************************************************)
(* Starting approximations and cluster restart of MPSolve 2.2              *)
(* (mps_fstart / mps_dstart / mps_mstart, mps_*compute_starting_radii,     *)
(* mps_*shift, mps_*restart).                                              *)
(*                                                                         *)
(* Numbers.  A double / rdpe value v is held as the integer raw(v) =       *)
(* v * ONE (fixed point, ONE = 2^FracBits); the rounding of the floating   *)
(* point operations is modelled by the rounding of the integer division.   *)
(* Each tier has its own representable range [DBL_MIN, DBL_MAX] and        *)
(* [RDPE_MIN, RDPE_MAX], the second one wider.  Logarithms are held in     *)
(* units of log(2)/LOGK.  Angles are held in units of PI/(4*LcmN), in      *)
(* which every angle the code computes is an integer.                      *)
(***************************************************************************)
EXTENDS Integers, Sequences, FiniteSets, TLC

(* ---------------------------------------------------------------- bounds *)
MaxN == 3
MaxM == 5
MaxClust == 3
MaxCalls == 2

(* ------------------------------------------------------- number format   *)
FracBits == 4
LOGK == 4

RECURSIVE Pow2(_)
Pow2(k) == IF k <= 0 THEN 1 ELSE 2 * Pow2(k - 1)

ONE == Pow2(FracBits)

RDPE_MIN == 1
DBL_MIN == 2
DBL_EPSILON == 4
DBL_MAX == Pow2(FracBits + 5)
RDPE_MAX == Pow2(FracBits + 7)

RECURSIVE FloorLog2(_)
FloorLog2(v) == IF v <= 1 THEN 0 ELSE 1 + FloorLog2(v \div 2)

(* log(v) of a positive value, in units of log(2)/LOGK: the exponent and a *)
(* linearly interpolated mantissa.                                         *)
Log(v) ==
  LET e == FloorLog2(v)
  IN  LOGK * (e - FracBits) + ((v - Pow2(e)) * LOGK) \div Pow2(e)

(* exp(t); a result below one raw unit underflows to 0.                    *)
Exp(t) ==
  LET q == t \div LOGK
      r == t % LOGK
  IN  IF q + FracBits < 0 THEN 0
      ELSE (Pow2(q + FracBits) * (LOGK + r)) \div LOGK

Max(a, b) == IF a >= b THEN a ELSE b
Min(a, b) == IF a <= b THEN a ELSE b

RECURSIVE Gcd(_, _)
Gcd(a, b) == IF b = 0 THEN a ELSE Gcd(b, a % b)

RECURSIVE LcmUpTo(_)
LcmUpTo(k) == IF k <= 1 THEN 1 ELSE LET l == LcmUpTo(k - 1) IN (l * k) \div Gcd(l, k)

(* One angular unit is PI/(4*LcmN): PI*m*gcd/(4*n) is a whole number of    *)
(* units for every n <= MaxN.                                              *)
LcmN == LcmUpTo(Max(MaxN, MaxM))
PI == 4 * LcmN

(* ------------------------------------------------------------ scheduler  *)
\* A gcd that stops before the first remainder is taken.
mps_gcd_unreduced(a, b) == b

\* do { temp = b; b = a % b; a = temp; } while (b != 0); return a;
RECURSIVE mps_gcd(_, _)
mps_gcd(a, b) ==
  LET b1 == a % b
  IN  IF b1 # 0 THEN mps_gcd(b, b1) ELSE b

\* delta_sigma = PI * (old_clust_n * mps_gcd(old_clust_n, n)) / (4 * n);
\* s->last_sigma = last_sigma + delta_sigma;  (the value returned is
\* s->last_sigma)
mps_maximize_distance(s, last_sigma, i_cluster, n) ==
  LET old_clust_n == s.punt[i_cluster] - s.punt[i_cluster - 1]
      delta_sigma == (PI * (old_clust_n * mps_gcd(old_clust_n, n))) \div (4 * n)
  IN  [s EXCEPT !.last_sigma = last_sigma + delta_sigma]

(* ------------------------------------------------------------ convex hull *)
\* mps_fconvex(s, n, a): h[0..n] marks the vertices of the upper convex hull
\* of the points (i, a[i]); the entries of h above n are left as they are.
IsVertex(a, n, i) ==
  \/ i = 0
  \/ i = n
  \/ \A p \in 0..(i - 1) : \A q \in (i + 1)..n :
        (a[i] - a[p]) * (q - i) > (a[q] - a[i]) * (i - p)

mps_fconvex(s, n, a) ==
  [s EXCEPT !.h = [i \in DOMAIN s.h |-> IF i <= n THEN IsVertex(a, n, i) ELSE s.h[i]]]

(* ------------------------------------------------- radii builder, double  *)
\* The first index i in 0..n with fap[i] != 0, or 0 when there is none.
RECURSIVE FirstNonZero(_, _, _)
FirstNonZero(fap, n, i) ==
  IF i > n THEN 0
  ELSE IF fap[i] # 0 THEN i
  ELSE FirstNonZero(fap, n, i + 1)

\* The value that stands for the logarithm of a null coefficient.
f_null_log(n, g, fap) ==
  LET xsmall == Log(DBL_MIN)
      ni == FirstNonZero(fap, n, 0)
  IN  IF g # 0
      THEN IF ni = 0 THEN 2 * xsmall
           ELSE Log(fap[ni]) + ni * (Log(DBL_EPSILON) + Log(g * ni * 10))
      ELSE 2 * xsmall

\* for (i = 0; i <= n; i++) fap2[i] = fap[i] != 0 ? log(fap[i]) : temp;
fill_fap2(s, n, fap, temp) ==
  [s EXCEPT !.fap2 = [i \in DOMAIN s.fap2 |->
      IF i <= n THEN (IF fap[i] # 0 THEN Log(fap[i]) ELSE temp) ELSE s.fap2[i]]]

\* The loop over the vertices of the hull, lines 135-162; r is the local
\* that holds the radius from one vertex to the next.
RECURSIVE f_annuli(_, _, _, _, _)
f_annuli(s, r, i, n, clust_rad) ==
  IF i > n THEN s
  ELSE IF ~s.h[i] THEN f_annuli(s, r, i + 1, n, clust_rad)
  ELSE
    LET xbig == Log(DBL_MAX)
        xsmall == Log(DBL_MIN)
        iold == s.partitioning[s.n_radii]
        nzeros == i - iold
        temp == (s.fap2[iold] - s.fap2[i]) \div nzeros
        r1 == IF temp < xsmall THEN DBL_MIN ELSE r
        r2 == IF temp > xbig THEN DBL_MAX ELSE r1
        r3 == IF (temp <= xbig) /\ (temp > xsmall) THEN Exp(temp) ELSE r2
        r4 == IF clust_rad # 0 /\ r3 > clust_rad THEN clust_rad ELSE r3
    IN  f_annuli([s EXCEPT !.fradii[s.n_radii] = r4,
                           !.partitioning[s.n_radii + 1] = i,
                           !.n_radii = @ + 1],
                 r4, i + 1, n, clust_rad)

(* -------------------------------------------------------------- compaction *)
\* (radii[j] - radii[i]) / radii[i] > circle_relative_distance, the threshold
\* being the rational crd.num/crd.den.  A division by a zero radius yields
\* +inf (which exceeds the threshold) or, for 0/0, NaN (which does not).
Far(ri, rj, crd) ==
  IF ri = 0 THEN rj > 0
  ELSE (rj - ri) * crd.den > crd.num * ri

\* A scan that stops at the first following annulus, near or not.
scan_near_first(rad, crd, i, j, n_radii) == j

\* for (j = i+1; j < n_radii; j++) if (Far) break;
RECURSIVE scan_near(_, _, _, _, _)
scan_near(rad, crd, i, j, n_radii) ==
  IF j >= n_radii THEN j
  ELSE IF Far(rad[i], rad[j], crd) THEN j
  ELSE scan_near(rad, crd, i, j + 1, n_radii)

RECURSIVE SumRange(_, _, _)
SumRange(f, a, b) == IF a > b THEN 0 ELSE f[a] + SumRange(f, a + 1, b)

\* One turn of the loop "for (i = 0; i < n_radii; i++)" on the arrays
\* c.rad, c.part and the count c.nr; sum is what the mean loop has added up
\* in radii[i].
compact_step(c, i, j, sum) ==
  LET offset == j - i
      last == c.nr - offset
  IN  [c EXCEPT
        !.rad = [x \in DOMAIN c.rad |->
                   IF x = i THEN sum \div offset
                   ELSE IF x > i /\ x <= last THEN c.rad[x + offset - 1]
                   ELSE c.rad[x]],
        !.part = [x \in DOMAIN c.part |->
                   IF x = i + 1 THEN c.part[j]
                   ELSE IF x > i + 1 /\ x <= last THEN c.part[x + offset - 1]
                   ELSE c.part[x]],
        !.nr = c.nr - offset + 1]

\* for (k = i+1; k < j; k++) fradii[i] += fradii[k];
f_mean_sum(c, i, j) == SumRange(c.rad, i, j - 1)

RECURSIVE f_compact(_, _)
f_compact(c, i) ==
  IF i >= c.nr THEN c
  ELSE LET j == scan_near(c.rad, c.crd, i, i + 1, c.nr)
       IN  f_compact(compact_step(c, i, j, f_mean_sum(c, i, j)), i + 1)

\* What follows the call of mps_fconvex, lines 132-201: s2.h is the mask
\* that the hull has left.
f_radii_of_hull(s2, n, clust_rad) ==
  LET s3 == f_annuli([s2 EXCEPT !.n_radii = 0, !.partitioning[0] = 0],
                     0, 1, n, clust_rad)
      s4 == [s3 EXCEPT !.partitioning[s3.n_radii] = n]
      c  == f_compact([rad |-> s4.fradii, part |-> s4.partitioning,
                       nr |-> s4.n_radii, crd |-> s4.circle_relative_distance], 0)
  IN  [s4 EXCEPT !.fradii = c.rad, !.partitioning = c.part, !.n_radii = c.nr,
                 !.pre = [rad |-> s4.fradii, nr |-> s4.n_radii]]

mps_fcompute_starting_radii(s, n, i_clust, clust_rad, g, eps, fap) ==
  LET s1 == fill_fap2(s, n, fap, f_null_log(n, g, fap))
  IN  f_radii_of_hull(mps_fconvex(s1, n, s1.fap2), n, clust_rad)

(* --------------------------------------------------------- placer, double *)
\* What cos and sin give for the angle pi2/0 * jj + ...: not a number.
NaN == [r |-> -1, p2 |-> 0, sg |-> 0, c |-> [re |-> 0, im |-> 0]]

\* The point r * exp(i * (ang * jj + th * p + sigma)) with ang = pi2/nzeros
\* and th = pi2/n: its modulus, the multiple of pi2 (in units of pi2/LcmN)
\* and the multiple of PI/(4*LcmN) that make up its angle.  A root is kept
\* as c + r * exp(i * angle), c being what has been added to it since.
Polar(r, jj, nzeros, p, n, sigma) ==
  IF nzeros = 0 THEN NaN
  ELSE [r |-> r,
        p2 |-> (jj * LcmN) \div nzeros + (p * LcmN) \div n,
        sg |-> sigma,
        c |-> [re |-> 0, im |-> 0]]

\* sigma and the new s->last_sigma, lines 240-250; rnd is what drand() returns.
choose_sigma(s, i_clust, n, rnd) ==
  IF s.random_seed THEN [s |-> [s EXCEPT !.sigma = rnd], sigma |-> rnd]
  ELSE IF i_clust = 0
       THEN [s |-> [s EXCEPT !.last_sigma = 0, !.sigma = 0], sigma |-> 0]
  ELSE LET s1 == mps_maximize_distance(s, s.last_sigma, i_clust, n)
       IN  [s |-> [s1 EXCEPT !.sigma = s1.last_sigma], sigma |-> s1.last_sigma]

\* The root index of slot j of the cluster being placed.
f_slot(s, i_clust, g, j) ==
  IF g # 0 THEN s.clust[s.punt[i_clust] + j] ELSE j

\* The placement loop without the test for the extreme radii.
RECURSIVE f_place_unmarked(_, _, _, _, _, _, _, _)
f_place_unmarked(s, i, j, n, i_clust, g, sigma, r) ==
  IF j >= s.partitioning[i + 1] THEN s
  ELSE
    LET l == f_slot(s, i_clust, g, j)
        jj == j - s.partitioning[i]
        nzeros == s.partitioning[i + 1] - s.partitioning[i]
    IN  f_place_unmarked([s EXCEPT
                   !.froot[l] = Polar(r, jj, nzeros, s.partitioning[i + 1], n, sigma),
                   !.asg[l] = @ + 1],
                i, j + 1, n, i_clust, g, sigma, r)

\* for (j = partitioning[i]; j < partitioning[i+1]; j++), lines 274-289.
\* asg[l] counts the assignments to froot[l] made by the call.
RECURSIVE f_place(_, _, _, _, _, _, _, _)
f_place(s, i, j, n, i_clust, g, sigma, r) ==
  IF j >= s.partitioning[i + 1] THEN s
  ELSE
    LET l == f_slot(s, i_clust, g, j)
        jj == j - s.partitioning[i]
        nzeros == s.partitioning[i + 1] - s.partitioning[i]
        s1 == IF (r = DBL_MIN) \/ (r = DBL_MAX)
              THEN [s EXCEPT !.status[l] = "x"] ELSE s
    IN  f_place([s1 EXCEPT
                   !.froot[l] = Polar(r, jj, nzeros, s.partitioning[i + 1], n, sigma),
                   !.asg[l] = @ + 1],
                i, j + 1, n, i_clust, g, sigma, r)

\* for (j = 0; j < punt[i_clust+1] - punt[i_clust]; j++), lines 297-301.
RECURSIVE f_output(_, _, _, _)
f_output(s, i_clust, j, rn) ==
  IF j >= s.punt[i_clust + 1] - s.punt[i_clust] THEN s
  ELSE LET l == s.clust[s.punt[i_clust] + j]
       IN  f_output([s EXCEPT !.status[l] = "o", !.frad[l] = rn],
                    i_clust, j + 1, rn)

\* for (i = 0; i < n_radii; i++), lines 269-304.
RECURSIVE f_circles(_, _, _, _, _, _, _)
f_circles(s, i, n, i_clust, g, eps, sigma) ==
  IF i >= s.n_radii THEN s
  ELSE
    LET nzeros == s.partitioning[i + 1] - s.partitioning[i]
        r == s.fradii[i]
        s1 == f_place(s, i, s.partitioning[i], n, i_clust, g, sigma, r)
        tmp == (eps * g) \div ONE
        s2 == IF g # 0 /\ r * nzeros <= tmp
              THEN f_output(s1, i_clust, 0, r * nzeros) ELSE s1
    IN  f_circles(s2, i + 1, n, i_clust, g, eps, sigma)

\* for (i = 0; i < n; i++) froot[i] = (cos(ang*i + sigma), sin(ang*i + sigma))
unit_circle(roots, asg, n, sigma) ==
  [roots |-> [l \in DOMAIN roots |->
                IF l < n THEN Polar(ONE, l, n, 0, n, sigma) ELSE roots[l]],
   asg |-> [l \in DOMAIN asg |-> IF l < n THEN asg[l] + 1 ELSE asg[l]]]

mps_fstart(s, n, i_clust, clust_rad, g, eps, fap, rnd) ==
  LET cs == choose_sigma(s, i_clust, n, rnd)
      s0 == cs.s
      sigma == cs.sigma
  IN  IF s0.data_type = "u"
      THEN LET u == unit_circle(s0.froot, s0.asg, n, sigma)
           IN  [s0 EXCEPT !.froot = u.roots, !.asg = u.asg]
      ELSE f_circles(mps_fcompute_starting_radii(s0, n, i_clust, clust_rad, g, eps, fap),
                     0, n, i_clust, g, eps, sigma)

(* ---------------------------------------------------- radii builder, dpe *)
\* rdpe_exp_eq(r) on a value outside the logarithms of the rdpe range: the
\* result leaves the range [RDPE_MIN, RDPE_MAX] (underflow to 0, overflow
\* beyond RDPE_MAX).
rdpe_exp(t) ==
  IF t > Log(RDPE_MAX) THEN 2 * RDPE_MAX
  ELSE IF t < Log(RDPE_MIN) THEN 0
  ELSE Exp(t)

\* The logarithm (in units of log(2)/LOGK) that the real number held by the
\* raw value v is when it is taken as the argument of exp: v / log(2), with
\* 1/log(2) rounded to 3/2.
AsLog(v) == (v * LOGK * 3) \div (2 * ONE)

\* temp = -2.0 * (LONG_MAX * LOG2), twice the logarithm of RDPE_MIN.
d_null_log(n, g, dap) ==
  LET ni == FirstNonZero(dap, n, 0)
  IN  IF g # 0
      THEN IF ni = 0 THEN 2 * Log(RDPE_MIN)
           ELSE (Log(g * ni * 10) + Log(DBL_EPSILON)) * ni + Log(dap[ni])
      ELSE 2 * Log(RDPE_MIN)

\* Lines 369-397.  rdpe_exp_eq(r) is outside the last if: it is applied to
\* whatever r holds.
RECURSIVE d_annuli(_, _, _, _, _)
d_annuli(s, r, i, n, clust_rad) ==
  IF i > n THEN s
  ELSE IF ~s.h[i] THEN d_annuli(s, r, i + 1, n, clust_rad)
  ELSE
    LET xbig == Log(RDPE_MAX)
        xsmall == Log(RDPE_MIN)
        iold == s.partitioning[s.n_radii]
        nzeros == i - iold
        temp == (s.fap2[iold] - s.fap2[i]) \div nzeros
        r1 == IF temp < xsmall THEN RDPE_MIN ELSE r
        r2 == IF temp < xbig THEN RDPE_MAX ELSE r1
        r3 == IF (temp < xbig) /\ (temp > xsmall)
              THEN rdpe_exp(temp) ELSE rdpe_exp(AsLog(r2))
        r4 == IF clust_rad # 0 /\ r3 > clust_rad THEN clust_rad ELSE r3
    IN  d_annuli([s EXCEPT !.dradii[s.n_radii] = r4,
                           !.partitioning[s.n_radii + 1] = i,
                           !.n_radii = @ + 1],
                 r4, i + 1, n, clust_rad)

\* for (k = i+1; k < j; k++) rdpe_add_eq(dradii[i], dradii[j]);
d_mean_sum(c, i, j) == c.rad[i] + (j - i - 1) * c.rad[j]

RECURSIVE d_compact(_, _)
d_compact(c, i) ==
  IF i >= c.nr THEN c
  ELSE LET j == scan_near(c.rad, c.crd, i, i + 1, c.nr)
       IN  d_compact(compact_step(c, i, j, d_mean_sum(c, i, j)), i + 1)

mps_dcompute_starting_radii(s, n, i_clust, clust_rad, g, eps, dap) ==
  LET s1 == fill_fap2(s, n, dap, d_null_log(n, g, dap))
      s2 == mps_fconvex(s1, n, s1.fap2)
      s3 == d_annuli([s2 EXCEPT !.n_radii = 0, !.partitioning[0] = 0],
                     0, 1, n, clust_rad)
      s4 == [s3 EXCEPT !.partitioning[s3.n_radii] = n]
      c  == d_compact([rad |-> s4.dradii, part |-> s4.partitioning,
                       nr |-> s4.n_radii, crd |-> s4.circle_relative_distance], 0)
  IN  [s4 EXCEPT !.dradii = c.rad, !.partitioning = c.part, !.n_radii = c.nr,
                 !.pre = [rad |-> s4.dradii, nr |-> s4.n_radii]]

(* ------------------------------------------------------------ placer, dpe *)
\* The root that the entry clust[k] names; k = s.n is the entry after the
\* last one of the array, which reads as oob (a root index, or s.n for a
\* value that names no root).
ClustAt(s, k, oob) == IF k < s.n THEN s.clust[k] ELSE oob

\* status[l][0] = c for a root l; a write through an index that names no
\* root changes none of the arrays of the model.
SetStatus(s, l, c) == IF l \in DOMAIN s.status THEN [s EXCEPT !.status[l] = c] ELSE s

\* for (j = iold; j < i; j++), lines 510-539.
RECURSIVE d_place(_, _, _, _, _, _, _, _, _)
d_place(s, i, j, n, i_clust, g, sigma, r, flag) ==
  IF j >= i THEN s
  ELSE
    LET iold == s.partitioning[i]
        nzeros == s.partitioning[i + 1] - iold
        l == f_slot(s, i_clust, g, j)
        jj == j - iold
        extreme == (r = RDPE_MIN) \/ (r = RDPE_MAX)
        s1 == IF flag
              THEN IF s.status[l] = "x"
                   THEN [s EXCEPT
                          !.droot[l] = Polar(r, jj, nzeros, s.partitioning[i + 1], n, sigma),
                          !.asg[l] = @ + 1,
                          !.status[l] = IF extreme THEN "f" ELSE "c"]
                   ELSE s
              ELSE [s EXCEPT
                      !.droot[l] = Polar(r, jj, nzeros, i, n, sigma),
                      !.asg[l] = @ + 1,
                      !.status[l] = IF extreme THEN "f" ELSE @]
    IN  d_place(s1, i, j + 1, n, i_clust, g, sigma, r, flag)

\* for (j = 0; j <= punt[i_clust+1] - punt[i_clust]; j++), lines 548-552.
RECURSIVE d_output(_, _, _, _, _)
d_output(s, i_clust, j, tmp1, oob) ==
  IF j > s.punt[i_clust + 1] - s.punt[i_clust] THEN s
  ELSE LET l == ClustAt(s, s.punt[i_clust] + j, oob)
           s1 == SetStatus(s, l, "o")
           s2 == IF l \in DOMAIN s.drad THEN [s1 EXCEPT !.drad[l] = tmp1] ELSE s1
       IN  d_output(s2, i_clust, j + 1, tmp1, oob)

\* for (i = 1; i <= n; i++) if (h[i]), lines 502-555.
RECURSIVE d_circles(_, _, _, _, _, _, _, _, _)
d_circles(s, i, n, i_clust, g, eps, sigma, flag, oob) ==
  IF i > n THEN s
  ELSE IF ~s.h[i] THEN d_circles(s, i + 1, n, i_clust, g, eps, sigma, flag, oob)
  ELSE
    LET iold == s.partitioning[i]
        nzeros == s.partitioning[i + 1] - iold
        r == s.dradii[i]
        s1 == d_place(s, i, iold, n, i_clust, g, sigma, r, flag)
        tmp == (g * eps) \div ONE
        tmp1 == r * nzeros
        s2 == IF g # 0 /\ tmp1 < tmp
              THEN d_output(s1, i_clust, 0, tmp1, oob) ELSE s1
    IN  d_circles(s2, i + 1, n, i_clust, g, eps, sigma, flag, oob)

\* for (i = 0; i < n; i++) { flag = (status[i][0] == 'x'); if (flag) break; }
dpe_after_float(s, n) == \E i \in 0..(n - 1) : s.status[i] = "x"

mps_dstart(s, n, i_clust, clust_rad, g, eps, dap, rnd, oob) ==
  LET cs == choose_sigma(s, i_clust, n, rnd)
      s0 == cs.s
      sigma == cs.sigma
  IN  IF s0.data_type = "u"
      THEN LET u == unit_circle(s0.droot, s0.asg, n, sigma)
           IN  [s0 EXCEPT !.droot = u.roots, !.asg = u.asg]
      ELSE d_circles(mps_dcompute_starting_radii(s0, n, i_clust, clust_rad, g, eps, dap),
                     1, n, i_clust, g, eps, sigma, dpe_after_float(s0, n), oob)

(* --------------------------------------------- radii builder, multiprec. *)
\* if (dap[0] == 0) fap2[0] = -mpwp * LOG2;
\* for (i = 0; i <= n; i++) fap2[i] = dap[i] != 0 ? log(dap[i]) : fap2[0];
m_fill_fap2(s, n, dap) ==
  LET y0 == IF dap[0] = 0 THEN -s.mpwp * LOGK ELSE Log(dap[0])
  IN  [s EXCEPT !.fap2 = [i \in DOMAIN s.fap2 |->
        IF i <= n THEN (IF dap[i] # 0 THEN Log(dap[i]) ELSE y0) ELSE s.fap2[i]]]

\* Lines 601-638: the radius is written in dradii[n_radii] itself.
RECURSIVE m_annuli(_, _, _, _)
m_annuli(s, i, n, clust_rad) ==
  IF i > n THEN s
  ELSE IF ~s.h[i] THEN m_annuli(s, i + 1, n, clust_rad)
  ELSE
    LET xbig == Log(RDPE_MAX)
        xsmall == Log(RDPE_MIN)
        iold == s.partitioning[s.n_radii]
        nzeros == i - iold
        temp == (s.fap2[iold] - s.fap2[i]) \div nzeros
        r1 == IF temp < xsmall THEN RDPE_MIN ELSE s.dradii[s.n_radii]
        r2 == IF temp > xbig THEN RDPE_MAX ELSE r1
        r3 == IF temp <= xbig /\ temp >= xsmall THEN Exp(temp) ELSE r2
        r4 == IF r3 > clust_rad THEN clust_rad ELSE r3
    IN  m_annuli([s EXCEPT !.dradii[s.n_radii] = r4,
                           !.partitioning[s.n_radii + 1] = i,
                           !.n_radii = @ + 1],
                 i + 1, n, clust_rad)

\* What follows the call of mps_fconvex, lines 598-665.
m_radii_of_hull(s2, n, clust_rad) ==
  LET s3 == m_annuli([s2 EXCEPT !.n_radii = 0, !.partitioning[0] = 0],
                     1, n, clust_rad)
      s4 == [s3 EXCEPT !.partitioning[s3.n_radii] = n]
      c  == d_compact([rad |-> s4.dradii, part |-> s4.partitioning,
                       nr |-> s4.n_radii, crd |-> s4.circle_relative_distance], 0)
  IN  [s4 EXCEPT !.dradii = c.rad, !.partitioning = c.part, !.n_radii = c.nr,
                 !.pre = [rad |-> s4.dradii, nr |-> s4.n_radii]]

mps_mcompute_starting_radii(s, n, i_clust, clust_rad, g, dap) ==
  LET s1 == m_fill_fap2(s, n, dap)
  IN  m_radii_of_hull(mps_fconvex(s1, n, s1.fap2), n, clust_rad)

(* ----------------------------------------------------- placer, multiprec. *)
\* for (j = iold; j < partitioning[i+1]; j++), lines 731-746.
RECURSIVE m_place(_, _, _, _, _, _)
m_place(s, i, j, n, i_clust, sigma) ==
  IF j >= s.partitioning[i + 1] THEN s
  ELSE
    LET iold == s.partitioning[i]
        nzeros == s.partitioning[i + 1] - iold
        l == s.clust[s.punt[i_clust] + j]
        r == s.dradii[i]
        s1 == [s EXCEPT
                !.droot[l] = Polar(r, j - iold, nzeros, s.partitioning[i + 1], n, sigma),
                !.asg[l] = @ + 1]
        s2 == IF (r = RDPE_MAX) \/ (r = RDPE_MIN)
              THEN [s1 EXCEPT !.status[l] = "f"] ELSE s1
    IN  m_place(s2, i, j + 1, n, i_clust, sigma)

\* for (j = 0; j < punt[i_clust+1] - punt[i_clust]; j++), lines 758-762; the
\* local r of mps_mstart is never assigned: junk is the value it holds.
RECURSIVE m_output(_, _, _, _)
m_output(s, i_clust, j, rad) ==
  IF j >= s.punt[i_clust + 1] - s.punt[i_clust] THEN s
  ELSE LET l == s.clust[s.punt[i_clust] + j]
       IN  m_output([s EXCEPT !.status[l] = "o", !.drad[l] = rad],
                    i_clust, j + 1, rad)

\* for (i = 0; i < n_radii; i++), lines 725-764; x.clust_rad is the argument
\* clust_rad, which the loop overwrites for the caller.
RECURSIVE m_circles(_, _, _, _, _, _, _)
m_circles(x, i, n, i_clust, g, sigma, junk) ==
  IF i >= x.s.n_radii THEN x
  ELSE
    LET nzeros == x.s.partitioning[i + 1] - x.s.partitioning[i]
        s1 == m_place(x.s, i, x.s.partitioning[i], n, i_clust, sigma)
        rtmp1 == s1.dradii[i] * nzeros
        rtmp2 == (g * s1.eps_out) \div ONE
        s2 == IF rtmp1 <= rtmp2
              THEN m_output(s1, i_clust, 0, junk * nzeros) ELSE s1
    IN  m_circles([s |-> s2, clust_rad |-> s2.dradii[i]],
                  i + 1, n, i_clust, g, sigma, junk)

mps_mstart(s, n, i_clust, clust_rad, g, dap, rnd, junk) ==
  LET cs == choose_sigma(s, i_clust, n, rnd)
  IN  m_circles([s |-> mps_mcompute_starting_radii(cs.s, n, i_clust, clust_rad, g, dap),
                 clust_rad |-> clust_rad],
                0, n, i_clust, g, cs.sigma, junk)

(* ------------------------------------------------------------------ shift *)
\* Complex numbers with integer parts; the coefficients of the polynomial
\* are such numbers, and the arithmetic on them is exact.
Cx(re, im) == [re |-> re, im |-> im]
CZero == Cx(0, 0)
CAdd(a, b) == Cx(a.re + b.re, a.im + b.im)
CMul(a, b) == Cx(a.re * b.re - a.im * b.im, a.re * b.im + a.im * b.re)
CNeg(a) == Cx(-a.re, -a.im)

RECURSIVE ISqrt(_)
ISqrt(x) ==
  IF x < 2 THEN x
  ELSE LET r == 2 * ISqrt(x \div 4)
       IN  IF (r + 1) * (r + 1) <= x THEN r + 1 ELSE r

\* cplx_mod, cdpe_mod: the modulus as a number of the tier.
\* Large moduli keep the relative precision of the format only.
cplx_mod(c) ==
  LET x == c.re * c.re + c.im * c.im
  IN  IF x < Pow2(30 - 2 * FracBits) THEN ISqrt(x * ONE * ONE)
      ELSE ISqrt(x) * ONE

\* A division that multiplies by g after adding the coefficient.
RECURSIVE horner_pass_swapped(_, _, _, _)
horner_pass_swapped(x, j, i, g) ==
  IF j < i THEN x
  ELSE LET t == CMul(CAdd(x.t, x.c1[j]), g)
       IN  horner_pass_swapped([c1 |-> [x.c1 EXCEPT ![j] = t], t |-> t], j - 1, i, g)

\* t = c1[n]; for (j = n - 1; j >= i; j--) { t = t*g + c1[j]; c1[j] = t; }
\* x = [c1, t]
RECURSIVE horner_pass(_, _, _, _)
horner_pass(x, j, i, g) ==
  IF j < i THEN x
  ELSE LET t == CAdd(CMul(x.t, g), x.c1[j])
       IN  horner_pass([c1 |-> [x.c1 EXCEPT ![j] = t], t |-> t], j - 1, i, g)

\* Divisions that all restart from the coefficients given, not from the
\* quotient of the division before.
RECURSIVE horner_divisions_restarted(_, _, _, _, _)
horner_divisions_restarted(y, i, n, m, g) ==
  IF i > m THEN y
  ELSE LET x == horner_pass([c1 |-> y.c1, t |-> y.c1[n]], n - 1, i, g)
       IN  horner_divisions_restarted([c1 |-> y.c1, out |-> [y.out EXCEPT ![i] = x.t]],
                                      i + 1, n, m, g)

\* for (i = i0; i <= m; i++) { one Horner division; out[i] = t; }
\* y = [c1, out]
RECURSIVE horner_divisions(_, _, _, _, _)
horner_divisions(y, i, n, m, g) ==
  IF i > m THEN y
  ELSE LET x == horner_pass([c1 |-> y.c1, t |-> y.c1[n]], n - 1, i, g)
       IN  horner_divisions([c1 |-> x.c1, out |-> [y.out EXCEPT ![i] = x.t]],
                            i + 1, n, m, g)

\* for (i = 0; i <= m; i++) ap[i] = |pc[i]|; the other entries stay.
moduli(ap, pc, m) ==
  [i \in DOMAIN ap |-> IF i <= m THEN cplx_mod(pc[i]) ELSE ap[i]]

mps_fshift(s, m, i_clust, clust_rad, g, eps, rnd) ==
  LET y == horner_divisions([c1 |-> s.fpc, out |-> s.fppc], 0, s.n, m, g)
      s1 == [s EXCEPT !.fppc1 = y.c1, !.fppc = y.out,
                      !.fap1 = moduli(s.fap1, y.out, m)]
  IN  mps_fstart(s1, m, i_clust, clust_rad, cplx_mod(g), eps, s1.fap1, rnd)

mps_dshift(s, m, i_clust, clust_rad, g, eps, rnd, oob) ==
  LET y == horner_divisions([c1 |-> s.dpc, out |-> s.dpc2], 0, s.n, m, g)
      s1 == [s EXCEPT !.dpc1 = y.c1, !.dpc2 = y.out,
                      !.dap1 = moduli(s.dap1, y.out, m)]
  IN  mps_dstart(s1, m, i_clust, clust_rad, cplx_mod(g), eps, s1.dap1, rnd, oob)

\* The bound ap of the first division of mps_mshift: ap = |mfpc[n]|, then
\* for (j = n - 1; j >= 0; j--) { abp = |mfpc[j]| * j; ap = ap * ag + abp; }
RECURSIVE m_bound(_, _, _, _)
m_bound(mfpc, j, ag, ap) ==
  IF j < 0 THEN ap
  ELSE m_bound(mfpc, j - 1, ag, (ap * ag) \div ONE + cplx_mod(mfpc[j]) * j)

\* The do ... while loop of mps_mshift, lines 1431-1469; mp_ep is the
\* exponent e of the working epsilon 2^(1 - e).
\* z = [mfpc1, mfppc1, k, mpwp_temp, mpwp_max, mp_ep, as, ap]
RECURSIVE m_first_division(_, _, _, _, _)
m_first_division(s, z, m, g, ag) ==
  LET x == horner_pass([c1 |-> z.mfpc1, t |-> z.mfpc1[s.n]], s.n - 1, 0, g)
      as == cplx_mod(x.t)
      ap == (m_bound(s.mfpc, s.n - 1, ag, cplx_mod(s.mfpc[s.n]))
               * 2 * 4 * (s.n + 1)) \div Pow2(z.mp_ep)
      z1 == [z EXCEPT !.mfpc1 = x.c1, !.mfppc1[0] = x.t, !.k = z.k + 1,
                      !.as = as, !.ap = ap]
      mpwp_temp == z.mpwp_temp + s.mpwp
  IN  IF as < ap
      THEN IF mpwp_temp > z.mpwp_max \/ mpwp_temp > s.prec_out * m * 2
           THEN [z1 EXCEPT !.mpwp_temp = mpwp_temp]
           ELSE LET z2 == [z1 EXCEPT !.mpwp_temp = mpwp_temp,
                                     !.mp_ep = mpwp_temp,
                                     !.mpwp_max = Max(z.mpwp_max, mpwp_temp),
                                     !.mfpc1 = s.mfpc]
                IN  IF z2.k <= m THEN m_first_division(s, z2, m, g, ag) ELSE z2
      ELSE z1

\* mpc_set_prec(g, wp), mps_raisetemp(s, wp) and their _raw forms: g and
\* the scratch coefficients 0..n are all given the precision wp.
mps_raisetemp(pr, wp) ==
  [g |-> wp, mfpc1 |-> [i \in DOMAIN pr.mfpc1 |-> wp],
   mfppc1 |-> [i \in DOMAIN pr.mfppc1 |-> wp]]

\* The precision the divisions 1..m are made at, lines 1473-1477:
\* mpwp_temp = MAX(mpwp_temp - mpwp, mpwp) at each of them.
RECURSIVE m_lowered(_, _, _, _, _)
m_lowered(pr, mpwp_temp, mpwp, i, m) ==
  IF i > m THEN pr
  ELSE m_lowered(mps_raisetemp(pr, Max(mpwp_temp - mpwp, mpwp)),
                 Max(mpwp_temp - mpwp, mpwp), mpwp, i + 1, m)

\* A restore to the precision the loop last asked for, not to s->mpwp.
m_restore_temp(pr, mpwp_temp, mpwp_max, mpwp) ==
  mps_raisetemp(mps_raisetemp(pr, mpwp_max), mpwp_temp)

\* Lines 1495-1500: the precision is set to mpwp_max (raw) and then to
\* s->mpwp.
m_restore(pr, mpwp_temp, mpwp_max, mpwp) ==
  mps_raisetemp(mps_raisetemp(pr, mpwp_max), mpwp)

\* The precisions that mps_mshift leaves: z is what the do ... while loop
\* left; a raise in the loop (lines 1461-1464) gave the precision z.mp_ep.
m_precisions(s, z, m) ==
  m_restore(m_lowered(IF z.mpwp_max > s.mpwp
                      THEN mps_raisetemp(s.prec, z.mp_ep) ELSE s.prec,
                      z.mpwp_temp, s.mpwp, 1, m),
            z.mpwp_temp, z.mpwp_max, s.mpwp)

mps_mshift(s, m, i_clust, clust_rad, g, rnd, junk) ==
  LET ag == cplx_mod(g)
      z == m_first_division(s,
             [mfpc1 |-> s.mfpc, mfppc1 |-> s.mfppc1, k |-> 0,
              mpwp_temp |-> s.mpwp, mpwp_max |-> s.mpwp, mp_ep |-> s.mpwp,
              as |-> 0, ap |-> ONE], m, g, ag)
      y == horner_divisions([c1 |-> z.mfpc1, out |-> z.mfppc1], 1, s.n, m, g)
      dap1 == IF z.as < z.ap
              THEN [i \in DOMAIN s.dap1 |->
                      IF i < m THEN z.ap
                      ELSE IF i = m THEN cplx_mod(y.out[m]) ELSE s.dap1[i]]
              ELSE moduli(s.dap1, y.out, m)
      s1 == [s EXCEPT !.mfpc1 = y.c1, !.mfppc1 = y.out, !.dap1 = dap1,
                      !.prec = m_precisions(s, z, m)]
  IN  mps_mstart(s1, m, i_clust, clust_rad, ag, dap1, rnd, junk)

(* ---------------------------------------------------------------- restart *)
\* cplx_mod of a root: r for a root on a circle about the origin; for a
\* root that has been moved off it, the sum of the moduli of its parts.
root_mod(z) == IF z.c = CZero THEN z.r ELSE cplx_mod(z.c) + z.r

\* if ((punt[i + 1] - punt[i]) == 1) continue;  A cluster that is never
\* taken for a singleton.
singleton_never(s, i) == FALSE

\* if ((punt[i + 1] - punt[i]) == 1) continue;
singleton(s, i) == s.punt[i + 1] - s.punt[i] = 1

\* looptst, lines 813-827: "again" if a member with again false is met,
\* "shift" if a member that asks for the shift is met first, "keep" if the
\* members run out.
RECURSIVE looptst(_, _, _)
looptst(s, i, j) ==
  IF j >= s.punt[i + 1] - s.punt[i] THEN "keep"
  ELSE LET l == s.clust[s.punt[i] + j]
           unsure == s.status[l] = "c" /\ s.incl[l] = "u"
           isolated == s.status[l] = "c" /\ s.incl[l] = "i"
       IN  IF ~s.again[l] THEN "again"
           ELSE IF s.goal = "c" /\ unsure THEN "shift"
           ELSE IF s.goal # "c" /\ (unsure \/ isolated) THEN "shift"
           ELSE looptst(s, i, j + 1)

\* keep_iterating without its loop: no root is tagged.
keep_iterating_untagged(s, i) == s

\* for (j = punt[i]; j < punt[i+1]; j++) status[clust[j]][0] = 'c';
keep_iterating(s, i) ==
  [s EXCEPT !.status = [l \in DOMAIN s.status |->
      IF \E j \in s.punt[i]..(s.punt[i + 1] - 1) : s.clust[j] = l
      THEN "c" ELSE s.status[l]]]

\* The Newton isolation test of mps_frestart, lines 846-860; dist is the
\* distance of the super centre from the roots of the other clusters.
f_not_isolated(s, i, sr, dist) ==
  \E k \in 0..(s.nclust - 1) :
     /\ k # i
     /\ \E j \in 0..(s.punt[k + 1] - s.punt[k] - 1) :
           dist < (sr + s.frad[s.clust[s.punt[k] + j]]) * 5 * s.n

\* for (j = 1; j < m; j++) for (k = 0; k <= n - j; k++)
\*    fppc[k] = fppc[k + 1] * (k + 1);
\* The entry n + 1 that the turn k = n of the inner loop would read does not
\* exist for j >= 1 since k stops at n - j.
RECURSIVE f_derive(_, _, _, _)
f_derive(fppc, n, m, j) ==
  IF j >= m THEN fppc
  ELSE f_derive([k \in DOMAIN fppc |->
                   IF k <= n - j THEN CMul(fppc[k + 1], Cx(k + 1, 0)) ELSE fppc[k]],
                n, m, j + 1)

RECURSIVE SumMod(_, _)
SumMod(pc, j) == IF j < 0 THEN 0 ELSE cplx_mod(pc[j]) + SumMod(pc, j - 1)

\* The loop that rewrites the roots of the cluster after the shift, lines
\* 915-922.
RECURSIVE f_rewrite(_, _, _, _, _)
f_rewrite(s, i, j, g, rtmp) ==
  IF j >= s.punt[i + 1] - s.punt[i] THEN s
  ELSE LET l == s.clust[s.punt[i] + j]
           z == s.froot[l]
           rad == 2 * (s.punt[i + 1] - s.punt[i]) * root_mod(z)
       IN  f_rewrite([s EXCEPT
                        !.frad[l] = IF z.r < 0 THEN -1
                                    ELSE IF rad < rtmp THEN rtmp ELSE rad,
                        !.froot[l] = [z EXCEPT !.c = CAdd(z.c, g)]],
                     i, j + 1, g, rtmp)

\* One turn of loop1 of mps_frestart for the cluster i.  geo is what
\* mps_fsrad and the distances give: the modulus scmod of the super centre,
\* the super radius sr, the distance dist of the super centre from the other
\* roots; newt tells whether the Newton loop stopped before max_newt_it, g is
\* the point it reached and dg its distance from the super centre.
\* The result is [s, next, outcome], next being "loop1" or "return".
frestart_cluster(s, i, geo, newt, g, dg, rnd) ==
  LET m == s.punt[i + 1] - s.punt[i]
      tst == looptst(s, i, 0)
      sum == SumMod(s.fpc, s.n)
      fppc == f_derive(s.fpc, s.n, m, 1)
      s1 == [s EXCEPT !.fppc = fppc,
                      !.fap1 = [j \in DOMAIN s.fap1 |->
                                  IF j < s.n - m + 2 THEN cplx_mod(fppc[j])
                                  ELSE s.fap1[j]]]
      ag == cplx_mod(g)
      s2 == mps_fshift(s1, m, i, geo.sr, g, s.eps_out, rnd)
      rtmp == (ag * DBL_EPSILON * 2) \div ONE
  IN  IF singleton(s, i) THEN [s |-> s, next |-> "loop1", outcome |-> "single"]
      ELSE IF tst = "again" THEN [s |-> s, next |-> "loop1", outcome |-> "again"]
      ELSE IF tst = "keep" THEN [s |-> s, next |-> "loop1", outcome |-> "keep"]
      ELSE IF geo.sr > geo.scmod
           THEN [s |-> keep_iterating(s, i), next |-> "loop1", outcome |-> "large"]
      ELSE IF f_not_isolated(s, i, geo.sr, geo.dist)
           THEN [s |-> keep_iterating(s, i), next |-> "loop1", outcome |-> "near"]
      ELSE IF newt = "exceeded"
           THEN [s |-> s1, next |-> "return", outcome |-> "newton"]
      ELSE IF dg > geo.sr
           THEN [s |-> s1, next |-> "return", outcome |-> "outside"]
      ELSE IF ag # 0 /\ s.n * Log(ag) + Log(sum) > Log(DBL_MAX)
           THEN [s |-> s1, next |-> "loop1", outcome |-> "overflow"]
      ELSE [s |-> f_rewrite(s2, i, 0, g, rtmp), next |-> "loop1",
            outcome |-> "shifted"]

(* ----------------------------------------------------------- restart, dpe *)
\* The Newton isolation test of mps_drestart, lines 1010-1027: the factor
\* is 2.0 * n.
d_not_isolated(s, i, sr, dist) ==
  \E k \in 0..(s.nclust - 1) :
     /\ k # i
     /\ \E j \in 0..(s.punt[k + 1] - s.punt[k] - 1) :
           dist < (sr + s.drad[s.clust[s.punt[k] + j]]) * 2 * s.n

\* The loop that rewrites the roots of the cluster after the shift, lines
\* 1072-1081.
RECURSIVE d_rewrite(_, _, _, _, _)
d_rewrite(s, i, j, g, rtmp) ==
  IF j >= s.punt[i + 1] - s.punt[i] THEN s
  ELSE LET l == s.clust[s.punt[i] + j]
           z == s.droot[l]
           rad == 2 * (s.punt[i + 1] - s.punt[i]) * root_mod(z)
       IN  d_rewrite([s EXCEPT
                        !.drad[l] = IF z.r < 0 THEN -1
                                    ELSE IF rad < rtmp THEN rtmp ELSE rad,
                        !.droot[l] = [z EXCEPT !.c = CAdd(z.c, g)]],
                     i, j + 1, g, rtmp)

\* One turn of loop1 of mps_drestart for the cluster i; the arguments are
\* those of frestart_cluster, oob is what a read past the end of clust finds.
drestart_cluster(s, i, geo, newt, g, dg, rnd, oob) ==
  LET m == s.punt[i + 1] - s.punt[i]
      tst == looptst(s, i, 0)
      dpc2 == f_derive(s.dpc, s.n, m, 1)
      s1 == [s EXCEPT !.dpc2 = dpc2,
                      !.dap1 = [j \in DOMAIN s.dap1 |->
                                  IF j < s.n - m + 2 THEN cplx_mod(dpc2[j])
                                  ELSE s.dap1[j]]]
      ag == cplx_mod(g)
      s2 == mps_dshift(s1, m, i, geo.sr, g, s.eps_out, rnd, oob)
      rtmp == (ag * DBL_EPSILON * 2) \div ONE
  IN  IF singleton(s, i) THEN [s |-> s, next |-> "loop1", outcome |-> "single"]
      ELSE IF tst = "again" THEN [s |-> s, next |-> "loop1", outcome |-> "again"]
      ELSE IF tst = "keep" THEN [s |-> s, next |-> "loop1", outcome |-> "keep"]
      ELSE IF geo.sr > geo.scmod
           THEN [s |-> keep_iterating(s, i), next |-> "loop1", outcome |-> "large"]
      ELSE IF d_not_isolated(s, i, geo.sr, geo.dist)
           THEN [s |-> keep_iterating(s, i), next |-> "loop1", outcome |-> "near"]
      ELSE IF newt = "exceeded"
           THEN [s |-> s1, next |-> "return", outcome |-> "newton"]
      ELSE IF dg > geo.sr
           THEN [s |-> s1, next |-> "return", outcome |-> "outside"]
      ELSE [s |-> d_rewrite(s2, i, 0, g, rtmp), next |-> "loop1",
            outcome |-> "shifted"]

(* ----------------------------------------------------- restart, multiprec. *)
\* rdpe_inv_eq(rtmp): 1 / rtmp, of the sign of rtmp; the inverse of zero is
\* beyond every number of the format.
rdpe_inv(x) ==
  IF x = 0 THEN RDPE_MAX * ONE
  ELSE IF x < 0 THEN -((ONE * ONE) \div (-x))
  ELSE (ONE * ONE) \div x

\* rtmp2 of lines 1172-1184: the sum over the roots clust[j] of the other
\* clusters of 1 / (|sc - mroot| - drad - sr).
RECURSIVE m_isolation_sum(_, _, _, _, _)
m_isolation_sum(s, i, sr, dist, j) ==
  IF j >= s.n THEN 0
  ELSE (IF j >= s.punt[i] /\ j < s.punt[i + 1] THEN 0
        ELSE rdpe_inv(dist - s.drad[s.clust[j]] - sr))
       + m_isolation_sum(s, i, sr, dist, j + 1)

\* rtmp2 * sr > 0.3, lines 1185-1188.
m_not_isolated(s, i, sr, dist) ==
  10 * ((m_isolation_sum(s, i, sr, dist, 0) * sr) \div ONE) > 3 * ONE

\* for (j ...) mpc_get_cdpe(droot[l], mroot[l]);  lines 1280-1283.
m_copy_roots(s, i) ==
  [s EXCEPT !.droot = [l \in DOMAIN s.droot |->
      IF \E j \in s.punt[i]..(s.punt[i + 1] - 1) : s.clust[j] = l
      THEN s.mroot[l] ELSE s.droot[l]]]

\* The loop that rewrites the roots of the cluster after the shift, lines
\* 1294-1302.
RECURSIVE m_rewrite(_, _, _, _, _)
m_rewrite(s, i, j, g, rtmp) ==
  IF j >= s.punt[i + 1] - s.punt[i] THEN s
  ELSE LET l == s.clust[s.punt[i] + j]
           z == s.droot[l]
           rad == 2 * (s.punt[i + 1] - s.punt[i]) * root_mod(z)
       IN  m_rewrite([s EXCEPT
                        !.mroot[l] = [z EXCEPT !.c = CAdd(z.c, g)],
                        !.drad[l] = IF z.r < 0 THEN -1
                                    ELSE IF rad < rtmp THEN rtmp ELSE rad],
                     i, j + 1, g, rtmp)

\* The derivative of order m - 1 and its moduli, and for a sparse polynomial
\* the derivative after it, lines 1194-1215.
m_derived(s, m, mfpc1) ==
  [s EXCEPT !.mfpc1 = mfpc1,
            !.dap1 = [j \in DOMAIN s.dap1 |->
                        IF j < s.n - m + 2 THEN cplx_mod(mfpc1[j])
                        ELSE s.dap1[j]],
            !.mfppc1 = IF s.data_type = "s"
                       THEN [j \in DOMAIN s.mfppc1 |->
                               IF j < s.n - m + 1
                               THEN CMul(mfpc1[j + 1], Cx(j + 1, 0))
                               ELSE s.mfppc1[j]]
                       ELSE s.mfppc1]

\* What follows mps_mshift, lines 1285-1311: x is what the shift returned,
\* rtmp is 4 * |g| * mp_epsilon.
m_after_shift(x, i, sr, g, rtmp) ==
  IF 4 * x.clust_rad < sr
  THEN [s |-> m_rewrite(x.s, i, 0, g, rtmp), next |-> "loop1",
        outcome |-> "shifted"]
  ELSE [s |-> x.s, next |-> "loop1", outcome |-> "undone"]

\* The Newton iterations of the cluster and what follows them, lines
\* 1218-1311: s1 holds the derivative.
m_newton(s1, m, i, geo, newt, g, dg, rnd, junk) ==
  IF newt = "exceeded"
  THEN [s |-> s1, next |-> "loop1", outcome |-> "newton"]
  ELSE IF dg > geo.sr
  THEN [s |-> s1, next |-> "loop1", outcome |-> "outside"]
  ELSE m_after_shift(mps_mshift(m_copy_roots(s1, i), m, i, geo.sr, g, rnd, junk),
                     i, geo.sr, g, (cplx_mod(g) * 2 * 2) \div Pow2(s1.mpwp))

\* One turn of loop1 of mps_mrestart for the cluster i; junk is what the
\* unassigned local r of mps_mstart holds.  mp_epsilon is 2^(1 - mpwp).
mrestart_cluster(s, i, geo, newt, g, dg, rnd, junk) ==
  LET m == s.punt[i + 1] - s.punt[i]
      tst == looptst(s, i, 0)
  IN  IF singleton(s, i) THEN [s |-> s, next |-> "loop1", outcome |-> "single"]
      ELSE IF tst = "again" THEN [s |-> s, next |-> "loop1", outcome |-> "again"]
      ELSE IF tst = "keep" THEN [s |-> s, next |-> "loop1", outcome |-> "keep"]
      ELSE IF geo.sr > geo.scmod
           THEN [s |-> keep_iterating(s, i), next |-> "loop1", outcome |-> "large"]
      ELSE IF m_not_isolated(s, i, geo.sr, geo.dist)
           THEN [s |-> keep_iterating(s, i), next |-> "loop1", outcome |-> "near"]
      ELSE m_newton(m_derived(s, m, f_derive(s.mfpc, s.n, m, 1)),
                    m, i, geo, newt, g, dg, rnd, junk)

(* ---------------------------------------------------------------- newtis *)
\* One turn of loop1 of mps_mnewtis for the cluster i, lines 1571-1667; geo
\* is what lines 1594-1622 compute: the modulus scmod of the super centre,
\* the super radius sr, the distance dist of the super centre from the other
\* roots.  The result is [s, outcome].
mnewtis_cluster_ungated(s, i, geo) ==
  LET tst == looptst(s, i, 0)
  IN  IF singleton(s, i) THEN [s |-> s, outcome |-> "single"]
      ELSE IF tst = "again" THEN [s |-> s, outcome |-> "again"]
      ELSE IF tst = "keep" THEN [s |-> s, outcome |-> "keep"]
      ELSE [s |-> [s EXCEPT !.newtis = 1], outcome |-> "isolated"]

mnewtis_cluster(s, i, geo) ==
  LET tst == looptst(s, i, 0)
  IN  IF singleton(s, i) THEN [s |-> s, outcome |-> "single"]
      ELSE IF tst = "again" THEN [s |-> s, outcome |-> "again"]
      ELSE IF tst = "keep" THEN [s |-> s, outcome |-> "keep"]
      ELSE IF geo.sr > geo.scmod
           THEN [s |-> keep_iterating(s, i), outcome |-> "large"]
      ELSE IF m_not_isolated(s, i, geo.sr, geo.dist)
           THEN [s |-> keep_iterating(s, i), outcome |-> "near"]
      ELSE [s |-> [s EXCEPT !.newtis = 1], outcome |-> "isolated"]

(* ------------------------------------------------------------------ state *)
\* s    the mps_status of the solve (fields named as in the source, incl[l]
\*      standing for status[l][2] and status[l] for status[l][0]; asg and
\*      pre are observers: asg[l] counts the assignments the last Placer call
\*      made to the approximation of root l, pre holds the radii and their
\*      number as they were when the last compaction pass began, sigma is
\*      the local sigma of the last Placer call);
\* op   the last engine call and its arguments;
\* ncalls the number of engine calls made so far;
\* env  the values the callers of the engine supply in this solve: fapvals
\*      the moduli of coefficients, gs the moduli of gravity centres,
\*      clustrads the cluster radii, fresh whether the Placer is also called
\*      on all the roots, oobs what a read past the end of clust may find,
\*      junks what the unassigned local r of mps_mstart may hold, rands
\*      what drand() may return;
\* hist the cluster indices of the Placer calls made so far (in the current
\*      Restart pass, when one is under way), in order;
\* pass where the Restart controller stands: the pass under way, if any, and
\*      the cluster its loop is about to look at.
VARIABLES s, op, ncalls, env, hist, pass

vars == <<s, op, ncalls, env, hist, pass>>

NoPass == [name |-> "none", i |-> 0]

Zero == [r |-> 0, p2 |-> 0, sg |-> 0, c |-> CZero]

\* The cluster registries of n roots: punt[0] = 0 < punt[1] < ... <
\* punt[nclust] = n.
Registries(n) ==
  { pu \in [0..n -> 0..n] :
      /\ pu[0] = 0
      /\ \E k \in 1..n :
            /\ pu[k] = n
            /\ \A i \in 0..(k - 1) : pu[i] < pu[i + 1]
            /\ \A i \in (k + 1)..n : pu[i] = 0 }

NClust(pu, n) == CHOOSE k \in 1..n : pu[k] = n /\ \A i \in (k + 1)..n : pu[i] = 0

\* clust: the roots in rotated order, so that a slot and the root it holds
\* have different indices.
Rotated(n) == [j \in 0..(n - 1) |-> (j + 1) % n]

\* The precision of the gravity centre g of mps_mrestart (mpc_init2, line
\* 1109) and of the scratch coefficients mfpc1[0..n], mfppc1[0..n], in bits.
Precisions(n, wp) ==
  [g |-> wp, mfpc1 |-> [i \in 0..n |-> wp], mfppc1 |-> [i \in 0..n |-> wp]]

\* The mps_status of a solve of degree n before any engine call.
UnitPoly(n) == [i \in 0..n |-> Cx(1, 0)]

NewStatus(n, pu, dt, rs, crd) ==
  [n |-> n,
   fpc |-> UnitPoly(n), fppc |-> UnitPoly(n), fppc1 |-> UnitPoly(n),
   dpc |-> UnitPoly(n), dpc1 |-> UnitPoly(n), dpc2 |-> UnitPoly(n),
   mfpc |-> UnitPoly(n), mfpc1 |-> UnitPoly(n), mfppc1 |-> UnitPoly(n),
   fap1 |-> [i \in 0..n |-> ONE], dap1 |-> [i \in 0..n |-> ONE],
   prec_out |-> FracBits,
   goal |-> "a",
   again |-> [l \in 0..(n - 1) |-> TRUE],
   incl |-> [l \in 0..(n - 1) |-> "u"],
   data_type |-> dt,
   random_seed |-> rs,
   circle_relative_distance |-> crd,
   eps_out |-> DBL_EPSILON,
   nclust |-> NClust(pu, n),
   punt |-> pu,
   clust |-> Rotated(n),
   status |-> [l \in 0..(n - 1) |-> "c"],
   frad |-> [l \in 0..(n - 1) |-> ONE],
   drad |-> [l \in 0..(n - 1) |-> ONE],
   froot |-> [l \in 0..(n - 1) |-> Zero],
   droot |-> [l \in 0..(n - 1) |-> Zero],
   mroot |-> [l \in 0..(n - 1) |-> Zero],
   mpwp |-> 2 * FracBits,
   prec |-> Precisions(n, 2 * FracBits),
   newtis |-> 0,
   last_sigma |-> 0,
   partitioning |-> [i \in 0..(n + 1) |-> 0],
   n_radii |-> 0,
   fradii |-> [i \in 0..n |-> 0],
   dradii |-> [i \in 0..n |-> 0],
   h |-> [i \in 0..n |-> FALSE],
   fap2 |-> [i \in 0..n |-> 0],
   asg |-> [l \in 0..(n - 1) |-> 0],
   pre |-> [rad |-> [i \in 0..n |-> 0], nr |-> 0],
   sigma |-> 0]

NoAsg(st) == [st EXCEPT !.asg = [l \in DOMAIN st.asg |-> 0]]

Thresholds == { [num |-> 1, den |-> 4], [num |-> 1, den |-> 1] }

\* What drand() returns in a call, in angular units; it is not called when
\* random_seed is false.
Rands == IF s.random_seed THEN env.rands ELSE {0}


\* Moduli of coefficients: null, the smallest double, one, 2.5 and 5.
FineEnv ==
  [fapvals |-> {0, DBL_MIN, ONE, (5 * ONE) \div 2, 5 * ONE},
   gs |-> {ONE},
   clustrads |-> {2 * ONE},
   fresh |-> TRUE,
   oobs |-> {0, MaxN - 1},
   junks |-> {0, ONE},
   rands |-> {1, 5}]

CoarseEnv ==
  [fapvals |-> {(5 * ONE) \div 2, 5 * ONE},
   gs |-> {ONE},
   clustrads |-> {8 * ONE},
   fresh |-> TRUE,
   oobs |-> {0, MaxN - 1},
   junks |-> {0, ONE},
   rands |-> {1, 5}]

\* Every coefficient of modulus one, for the calls whose radii do not matter.
UnitEnv ==
  [fapvals |-> {ONE},
   gs |-> {ONE},
   clustrads |-> {8 * ONE},
   fresh |-> FALSE,
   oobs |-> {0},
   junks |-> {0},
   rands |-> {5}]

\* A solve of degree MaxN whose last engine call is about to be made.
InitRadii ==
  /\ \E pu \in Registries(MaxN), crd \in Thresholds :
        s = NewStatus(MaxN, pu, "d", FALSE, crd)
  /\ op = [name |-> "init"]
  /\ ncalls = MaxCalls - 1
  /\ env = FineEnv
  /\ hist = << >>
  /\ pass = NoPass

\* The arguments (n, i_clust, clust_rad, g, moduli) of a Placer call: on all
\* the roots with g = 0 (the start of a phase), or on the cluster i_clust of
\* the polynomial shifted in a gravity centre of modulus g.
PlacerArgs ==
  { a \in [n : 1..s.n, i_clust : 0..(s.nclust - 1),
           clust_rad : env.clustrads \cup {0}, g : env.gs \cup {0}] :
      \/ env.fresh /\ a.n = s.n /\ a.i_clust = 0 /\ a.clust_rad = 0 /\ a.g = 0
      \/ /\ a.n = s.punt[a.i_clust + 1] - s.punt[a.i_clust]
         /\ a.clust_rad # 0
         /\ a.g # 0 }

Moduli(a) ==
  { fap \in [0..a.n -> env.fapvals] : a.g = 0 => fap[a.n] # 0 }

Called(name, a, fap) ==
  [name |-> name, n |-> a.n, i_clust |-> a.i_clust, clust_rad |-> a.clust_rad,
   g |-> a.g, fap |-> fap]

FStart ==
  /\ ncalls < MaxCalls
  /\ \E a \in PlacerArgs, rnd \in Rands :
       \E fap \in Moduli(a) :
            /\ s' = mps_fstart(NoAsg(s), a.n, a.i_clust, a.clust_rad, a.g,
                               s.eps_out, fap, rnd)
            /\ op' = Called("fstart", a, fap)
  /\ ncalls' = ncalls + 1
  /\ hist' = Append(hist, op'.i_clust)
  /\ UNCHANGED <<env, pass>>

DStart ==
  /\ ncalls < MaxCalls
  /\ \E a \in PlacerArgs, rnd \in Rands, oob \in env.oobs :
       \E dap \in Moduli(a) :
            /\ s' = mps_dstart(NoAsg(s), a.n, a.i_clust, a.clust_rad, a.g,
                               s.eps_out, dap, rnd, oob)
            /\ op' = Called("dstart", a, dap)
  /\ ncalls' = ncalls + 1
  /\ hist' = Append(hist, op'.i_clust)
  /\ UNCHANGED <<env, pass>>

MStart ==
  /\ ncalls < MaxCalls
  /\ \E a \in PlacerArgs, rnd \in Rands, junk \in env.junks :
       \E dap \in Moduli(a) :
            /\ s' = mps_mstart(NoAsg(s), a.n, a.i_clust, a.clust_rad, a.g,
                               dap, rnd, junk).s
            /\ op' = Called("mstart", a, dap)
  /\ ncalls' = ncalls + 1
  /\ hist' = Append(hist, op'.i_clust)
  /\ UNCHANGED <<env, pass>>

NextRadii == FStart \/ DStart \/ MStart

SpecRadii == InitRadii /\ [][NextRadii]_vars

(* Two calls in a row at the extended tiers: the second call finds in the
   scratch arrays what the first one left there. *)
InitStale ==
  /\ \E pu \in Registries(MaxN), crd \in Thresholds :
        s = NewStatus(MaxN, pu, "d", FALSE, crd)
  /\ op = [name |-> "init"]
  /\ ncalls = 0
  /\ env = CoarseEnv
  /\ hist = << >>
  /\ pass = NoPass

NextStale == DStart \/ MStart

SpecStale == InitStale /\ [][NextStale]_vars

(* The Placer called on cluster after cluster of a registry of up to MaxClust
   clusters of up to MaxM roots each. *)
RECURSIVE SumTo(_, _)
SumTo(sizes, i) == IF i = 0 THEN 0 ELSE sizes[i] + SumTo(sizes, i - 1)

\* punt for the clusters of the given sizes.
RegistryOf(sizes) ==
  [i \in 0..SumTo(sizes, Len(sizes)) |->
     IF i <= Len(sizes) THEN SumTo(sizes, i) ELSE 0]

ClusterSizes == UNION { [1..k -> 1..MaxM] : k \in 1..MaxClust }

InitSigma ==
  /\ \E sizes \in ClusterSizes, rs \in BOOLEAN :
        s = NewStatus(SumTo(sizes, Len(sizes)), RegistryOf(sizes), "d", rs,
                      [num |-> 1, den |-> 1])
  /\ op = [name |-> "init"]
  /\ ncalls = MaxCalls - MaxClust
  /\ env = UnitEnv
  /\ hist = << >>
  /\ pass = NoPass

NextSigma == FStart \/ DStart \/ MStart

SpecSigma == InitSigma /\ [][NextSigma]_vars

(* One Shift call on a cluster of a polynomial of degree MaxN. *)
Coefs == {Cx(0, 0), Cx(1, 0), Cx(-2, 1), Cx(0, -1)}

\* (x - 2)(x - 3)(x - 5) = x^3 - 10 x^2 + 31 x - 30, times x^(n - 3).
Example(n) ==
  LET c == <<Cx(-30, 0), Cx(31, 0), Cx(-10, 0), Cx(1, 0)>>
  IN  [i \in 0..n |-> IF i < n - 3 \/ n < 3 THEN CZero ELSE c[i - (n - 3) + 1]]

Polys(n) == { p \in [0..n -> Coefs] : p[n] # CZero } \cup { Example(n) }

WithPoly(st, p) ==
  [st EXCEPT !.fpc = p, !.fppc = p, !.fppc1 = p, !.dpc = p, !.dpc1 = p,
             !.dpc2 = p, !.mfpc = p, !.mfpc1 = p, !.mfppc1 = p]

ShiftEnv ==
  [fapvals |-> {ONE},
   gs |-> {ONE},
   clustrads |-> {8 * ONE},
   fresh |-> FALSE,
   oobs |-> {0, MaxN - 1},
   junks |-> {0, ONE},
   rands |-> {5},
   gvals |-> {Cx(10, 0), Cx(1, 1), Cx(-2, 0)}]

InitShift ==
  /\ \E pu \in Registries(MaxN), p \in Polys(MaxN) :
        s = WithPoly(NewStatus(MaxN, pu, "d", FALSE, [num |-> 1, den |-> 1]), p)
  /\ op = [name |-> "init"]
  /\ ncalls = MaxCalls - 1
  /\ env = ShiftEnv
  /\ hist = << >>
  /\ pass = NoPass

\* The arguments (m, i_clust, clust_rad, g) of a Shift call: a cluster, its
\* size, its super radius and its centre of gravity.
ShiftArgs ==
  { a \in [m : 1..s.n, i_clust : 0..(s.nclust - 1),
           clust_rad : env.clustrads, g : env.gvals] :
      a.m = s.punt[a.i_clust + 1] - s.punt[a.i_clust] }

Shifted(name, a, ap) ==
  [name |-> name, n |-> a.m, i_clust |-> a.i_clust, clust_rad |-> a.clust_rad,
   g |-> cplx_mod(a.g), cg |-> a.g, fap |-> ap]

FShift ==
  /\ ncalls < MaxCalls
  /\ \E a \in ShiftArgs, rnd \in Rands :
       /\ s' = mps_fshift(NoAsg(s), a.m, a.i_clust, a.clust_rad, a.g, s.eps_out, rnd)
       /\ op' = Shifted("fshift", a, s'.fap1)
  /\ ncalls' = ncalls + 1
  /\ hist' = Append(hist, op'.i_clust)
  /\ UNCHANGED <<env, pass>>

DShift ==
  /\ ncalls < MaxCalls
  /\ \E a \in ShiftArgs, rnd \in Rands, oob \in env.oobs :
       /\ s' = mps_dshift(NoAsg(s), a.m, a.i_clust, a.clust_rad, a.g, s.eps_out,
                          rnd, oob)
       /\ op' = Shifted("dshift", a, s'.dap1)
  /\ ncalls' = ncalls + 1
  /\ hist' = Append(hist, op'.i_clust)
  /\ UNCHANGED <<env, pass>>

MShift ==
  /\ ncalls < MaxCalls
  /\ \E a \in ShiftArgs, rnd \in Rands, junk \in env.junks :
       /\ s' = mps_mshift(NoAsg(s), a.m, a.i_clust, a.clust_rad, a.g, rnd, junk).s
       /\ op' = Shifted("mshift", a, s'.dap1)
  /\ ncalls' = ncalls + 1
  /\ hist' = Append(hist, op'.i_clust)
  /\ UNCHANGED <<env, pass>>

NextShift == FShift \/ DShift \/ MShift

SpecShift == InitShift /\ [][NextShift]_vars

(* Restart passes at the double tier over the clusters of a polynomial of
   degree MaxN. *)
RestartEnv ==
  [fapvals |-> {ONE},
   gs |-> {ONE},
   clustrads |-> {8 * ONE},
   fresh |-> FALSE,
   oobs |-> {0},
   junks |-> {0},
   rands |-> {5},
   gvals |-> {Cx(1, 0), Cx(1, 1)},
   scmods |-> {ONE \div 4, 2 * ONE},
   srs |-> {ONE \div 2},
   dists |-> {ONE, 32 * ONE},
   dgs |-> {0, ONE},
   newts |-> {"converged", "exceeded"}]

\* What the iterations before a pass may have left in a root: still to be
\* approximated and not yet isolated, isolated, or not to be iterated again.
RootKinds ==
  { [status |-> "c", incl |-> "u", again |-> TRUE],
    [status |-> "c", incl |-> "i", again |-> TRUE],
    [status |-> "c", incl |-> "u", again |-> FALSE] }

WithRoots(st, kinds, goal) ==
  [st EXCEPT !.status = [l \in DOMAIN st.status |-> kinds[l].status],
             !.incl = [l \in DOMAIN st.incl |-> kinds[l].incl],
             !.again = [l \in DOMAIN st.again |-> kinds[l].again],
             !.goal = goal]

RestartPolys(n) == { UnitPoly(n), Example(n) }

InitRestart ==
  /\ \E pu \in Registries(MaxN), p \in RestartPolys(MaxN),
        kinds \in [0..(MaxN - 1) -> RootKinds], goal \in {"c", "a"} :
        s = WithRoots(WithPoly(NewStatus(MaxN, pu, "d", FALSE, [num |-> 1, den |-> 1]),
                               p), kinds, goal)
  /\ op = [name |-> "init"]
  /\ ncalls = MaxCalls - 2
  /\ env = RestartEnv
  /\ hist = << >>
  /\ pass = NoPass

\* mps_frestart is entered: a pass begins unless the polynomial is
\* user-defined.
FRestart ==
  /\ pass.name = "none"
  /\ ncalls < MaxCalls
  /\ pass' = IF s.data_type = "u" THEN NoPass ELSE [name |-> "frestart", i |-> 0]
  /\ op' = [name |-> "frestart", outcome |-> "entered"]
  /\ hist' = << >>
  /\ ncalls' = ncalls + 1
  /\ UNCHANGED <<s, env>>

\* One turn of loop1 of mps_frestart.
\* The turn of loop1 that left r: the status it wrote, and where the loop
\* goes next (the following cluster, or out of the pass).
FRestartTurn(r, scmod, sr, dist, g) ==
  /\ s' = r.s
  /\ op' = IF r.outcome = "shifted"
           THEN [name |-> "frestart", outcome |-> r.outcome,
                 n |-> s.punt[pass.i + 1] - s.punt[pass.i],
                 i_clust |-> pass.i, clust_rad |-> sr,
                 g |-> cplx_mod(g), cg |-> g, fap |-> r.s.fap1,
                 dist |-> dist, scmod |-> scmod]
           ELSE [name |-> "frestart", outcome |-> r.outcome,
                 i_clust |-> pass.i, clust_rad |-> sr, dist |-> dist,
                 scmod |-> scmod]
  /\ hist' = IF r.outcome = "shifted" THEN Append(hist, pass.i) ELSE hist
  /\ pass' = IF r.next = "return" \/ pass.i + 1 >= s.nclust
             THEN NoPass ELSE [pass EXCEPT !.i = @ + 1]

FRestartCluster ==
  /\ pass.name = "frestart"
  /\ \E scmod \in env.scmods, sr \in env.srs, dist \in env.dists,
        newt \in env.newts, g \in env.gvals, dg \in env.dgs, rnd \in Rands :
       FRestartTurn(frestart_cluster(NoAsg(s), pass.i,
                                     [scmod |-> scmod, sr |-> sr, dist |-> dist],
                                     newt, g, dg, rnd),
                    scmod, sr, dist, g)
  /\ UNCHANGED <<ncalls, env>>

NextRestart == FRestart \/ FRestartCluster

SpecRestart == InitRestart /\ [][NextRestart]_vars

(* One Restart pass, at any of the three tiers, over the clusters of a
   polynomial of degree PassN. *)
PassN == MaxN + 1

\* (x - 1)^2 x^(n - 2): a double root in 1.
DoubleRoot(n) ==
  [i \in 0..n |-> IF i = n THEN Cx(1, 0)
                  ELSE IF i = n - 1 THEN Cx(-2, 0)
                  ELSE IF i = n - 2 THEN Cx(1, 0) ELSE CZero]

\* (x - 1)^4 + (x - 1)^2 + 64 (x - 1) + 1 = x^4 - 4 x^3 + 7 x^2 + 58 x - 61,
\* times x^(n - 4): a root close to 1, the others far from it.
NearRoot(n) ==
  LET c == <<Cx(-61, 0), Cx(58, 0), Cx(7, 0), Cx(-4, 0), Cx(1, 0)>>
  IN  [i \in 0..n |-> IF i < n - 4 \/ n < 4 THEN CZero ELSE c[i - (n - 4) + 1]]

PassPolys(n) == { UnitPoly(n), DoubleRoot(n), NearRoot(n) }

PassEnv ==
  [fapvals |-> {ONE},
   gs |-> {ONE},
   clustrads |-> {8 * ONE},
   fresh |-> FALSE,
   oobs |-> {0},
   junks |-> {ONE},
   rands |-> {5},
   gvals |-> {Cx(1, 0)},
   scmods |-> {ONE \div 4, 4 * ONE},
   srs |-> {ONE \div 2, 4 * ONE},
   dists |-> {ONE, (25 * ONE) \div 2, 32 * ONE},
   dgs |-> {0, ONE},
   newts |-> {"converged", "exceeded"}]

\* What the iterations before the pass may have left in a root: still to be
\* approximated, or not to be iterated again.
PassKinds ==
  { [status |-> "c", incl |-> "u", again |-> TRUE],
    [status |-> "c", incl |-> "u", again |-> FALSE] }

\* The inclusion radii the iterations before the pass may have left.
PassRadii == { RDPE_MIN, ONE }

WithRadii(st, rad) ==
  [st EXCEPT !.frad = [l \in DOMAIN st.frad |-> rad],
             !.drad = [l \in DOMAIN st.drad |-> rad],
             !.mpwp = 4 * FracBits,
             !.prec = Precisions(st.n, 4 * FracBits)]

\* The registries of a pass: one leading cluster, every later root alone.
PassRegistries(n) ==
  { pu \in Registries(n) :
      \A i \in 1..(n - 1) : pu[i + 1] # 0 => pu[i + 1] - pu[i] = 1 }

\* What the roots are at the beginning of a pass: all of one kind, or the
\* roots of odd index still in a cluster and the others found isolated by
\* the iterations before the pass.
PassPatterns(n) ==
  { [l \in 0..(n - 1) |-> kind] : kind \in PassKinds }
  \cup { [l \in 0..(n - 1) |->
            IF l % 2 = 1 THEN [status |-> "c", incl |-> "u", again |-> TRUE]
            ELSE [status |-> "i", incl |-> "i", again |-> TRUE]] }

InitPass ==
  /\ \E pu \in PassRegistries(PassN), p \in PassPolys(PassN),
        kinds \in PassPatterns(PassN), rad \in PassRadii, dt \in {"d", "u"} :
        /\ dt = "u" => /\ p = UnitPoly(PassN)
                       /\ \A l \in 0..(PassN - 1) : kinds[l].again
        /\ s = WithRadii(WithRoots(WithPoly(
                   NewStatus(PassN, pu, dt, FALSE, [num |-> 1, den |-> 1]), p),
                   kinds, "a"), rad)
  /\ op = [name |-> "init"]
  /\ ncalls = MaxCalls - 1
  /\ env = PassEnv
  /\ hist = << >>
  /\ pass = NoPass

\* mps_drestart is entered.
DRestart ==
  /\ pass.name = "none"
  /\ ncalls < MaxCalls
  /\ pass' = IF s.data_type = "u" THEN NoPass ELSE [name |-> "drestart", i |-> 0]
  /\ op' = [name |-> "drestart", outcome |-> "entered"]
  /\ hist' = << >>
  /\ ncalls' = ncalls + 1
  /\ UNCHANGED <<s, env>>

\* One turn of loop1 of mps_drestart.
DRestartTurn(r, scmod, sr, dist, g) ==
  /\ s' = r.s
  /\ op' = [name |-> "drestart", outcome |-> r.outcome,
            i_clust |-> pass.i, clust_rad |-> sr, dist |-> dist,
            scmod |-> scmod, cg |-> g]
  /\ hist' = IF r.outcome = "shifted" THEN Append(hist, pass.i) ELSE hist
  /\ pass' = IF r.next = "return" \/ pass.i + 1 >= s.nclust
             THEN NoPass ELSE [pass EXCEPT !.i = @ + 1]

DRestartCluster ==
  /\ pass.name = "drestart"
  /\ \E scmod \in env.scmods, sr \in env.srs, dist \in env.dists,
        newt \in env.newts, g \in env.gvals, dg \in env.dgs, rnd \in Rands,
        oob \in env.oobs :
       DRestartTurn(drestart_cluster(NoAsg(s), pass.i,
                                     [scmod |-> scmod, sr |-> sr, dist |-> dist],
                                     newt, g, dg, rnd, oob),
                    scmod, sr, dist, g)
  /\ UNCHANGED <<ncalls, env>>

\* mps_mrestart is entered.
MRestart ==
  /\ pass.name = "none"
  /\ ncalls < MaxCalls
  /\ pass' = IF s.data_type = "u" THEN NoPass ELSE [name |-> "mrestart", i |-> 0]
  /\ op' = [name |-> "mrestart", outcome |-> "entered"]
  /\ hist' = << >>
  /\ ncalls' = ncalls + 1
  /\ UNCHANGED <<s, env>>

\* One turn of loop1 of mps_mrestart.
MRestartTurn(r, scmod, sr, dist, g) ==
  /\ s' = r.s
  /\ op' = [name |-> "mrestart", outcome |-> r.outcome,
            i_clust |-> pass.i, clust_rad |-> sr, dist |-> dist,
            scmod |-> scmod, cg |-> g]
  /\ hist' = IF r.outcome \in {"shifted", "undone"}
             THEN Append(hist, pass.i) ELSE hist
  /\ pass' = IF r.next = "return" \/ pass.i + 1 >= s.nclust
             THEN NoPass ELSE [pass EXCEPT !.i = @ + 1]

MRestartCluster ==
  /\ pass.name = "mrestart"
  /\ \E scmod \in env.scmods, sr \in env.srs, dist \in env.dists,
        newt \in env.newts, g \in env.gvals, dg \in env.dgs, rnd \in Rands,
        junk \in env.junks :
       MRestartTurn(mrestart_cluster(NoAsg(s), pass.i,
                                     [scmod |-> scmod, sr |-> sr, dist |-> dist],
                                     newt, g, dg, rnd, junk),
                    scmod, sr, dist, g)
  /\ UNCHANGED <<ncalls, env>>

NextPass ==
  \/ FRestart \/ FRestartCluster
  \/ DRestart \/ DRestartCluster
  \/ MRestart \/ MRestartCluster

SpecPass == InitPass /\ [][NextPass]_vars

(* ----------------------------------------------------------------- horner *)
\* p->mfpc[j]; an index beyond p->n is outside the array and reads as junk.
mhorner_coef(p, j, junk) == IF j \in DOMAIN p.mfpc THEN p.mfpc[j] ELSE junk

\* for (j = s->n - 1; j >= 0; j--) { value *= x; value += p->mfpc[j]; }
RECURSIVE mhorner_loop(_, _, _, _, _)
mhorner_loop(p, x, value, j, junk) ==
  IF j < 0 THEN value
  ELSE mhorner_loop(p, x, CAdd(CMul(value, x), mhorner_coef(p, j, junk)),
                    j - 1, junk)

\* mps_mhorner(s, p, x, value): what it leaves in value.
mps_mhorner(st, p, x, junk) ==
  mhorner_loop(p, x, p.mfpc[p.n], st.n - 1, junk)

\* rdpe_div(a, b), the quotient of what is not a number by zero being beyond
\* every number of the format.
rdpe_div(a, b) == IF b = 0 THEN RDPE_MAX * ONE ELSE (a * ONE) \div b

\* The loop of mps_mhorner_with_error, lines 63-86; y = [value, relative_error].
RECURSIVE mhorner_error_loop(_, _, _, _, _, _)
mhorner_error_loop(p, x, y, j, my_eps, junk) ==
  IF j < 0 THEN y
  ELSE
    LET ss == CAdd(CMul(y.value, x), mhorner_coef(p, j, junk))
        r_ss == cplx_mod(ss)
        r_value == cplx_mod(y.value)
        pol_on_ss == rdpe_div(r_value, r_ss)
        e1 == y.relative_error + ((y.relative_error + my_eps) * pol_on_ss) \div ONE
        e2 == e1 + (rdpe_div(cplx_mod(mhorner_coef(p, j, junk)), r_ss) * my_eps) \div ONE
    IN  mhorner_error_loop(p, x, [value |-> ss, relative_error |-> Min(e2, RDPE_MAX * ONE)],
                           j - 1, my_eps, junk)

\* mps_mhorner_with_error(s, p, x, value, relative_error, wp).
mps_mhorner_with_error(st, p, x, wp, junk) ==
  LET my_wp == IF wp = 0 THEN st.mpwp ELSE wp
      my_eps == ONE \div Pow2(my_wp + 1)
  IN  mhorner_error_loop(p, x, [value |-> p.mfpc[p.n], relative_error |-> 0],
                         st.n - 1, my_eps, junk)

(* Evaluations of monomial polynomials of degree up to MaxN in a solve of
   degree up to MaxN. *)
HornerCoefs == {Cx(0, 0), Cx(1, 0), Cx(-2, 1)}

HornerPoints == {Cx(0, 0), Cx(1, 0), Cx(2, 0), Cx(0, 1), Cx(-1, 0)}

\* The monomial polynomials: the degree n and the coefficients mfpc[0..n].
MonomialPolys ==
  UNION { { [n |-> k, mfpc |-> c] : c \in [0..k -> HornerCoefs] } : k \in 1..MaxN }

HornerEnv ==
  [junks |-> {Cx(0, 0), Cx(1, 0)},
   wps |-> {0, 2}]

InitHorner ==
  /\ \E k \in 1..MaxN : s = [n |-> k, mpwp |-> 2 * FracBits]
  /\ op = [name |-> "init"]
  /\ ncalls = MaxCalls - 1
  /\ env = HornerEnv
  /\ hist = << >>
  /\ pass = NoPass

MHorner ==
  /\ ncalls < MaxCalls
  /\ \E p \in MonomialPolys, x \in HornerPoints, junk \in env.junks :
       op' = [name |-> "mhorner", p |-> p, x |-> x,
              value |-> mps_mhorner(s, p, x, junk)]
  /\ ncalls' = ncalls + 1
  /\ UNCHANGED <<s, env, hist, pass>>

MHornerWithError ==
  /\ ncalls < MaxCalls
  /\ \E p \in MonomialPolys, x \in HornerPoints, junk \in env.junks,
        wp \in env.wps :
       LET y == mps_mhorner_with_error(s, p, x, wp, junk)
       IN  op' = [name |-> "mhorner_with_error", p |-> p, x |-> x,
                  value |-> y.value, relative_error |-> y.relative_error]
  /\ ncalls' = ncalls + 1
  /\ UNCHANGED <<s, env, hist, pass>>

NextHorner == MHorner \/ MHornerWithError

SpecHorner == InitHorner /\ [][NextHorner]_vars

(* ------------------------------------------------------------ the claims *)
Placers == {"fstart", "dstart", "mstart"}

\* The root that slot j of the cluster placed by the last call holds.
SlotRoot(j) ==
  IF op.name = "mstart" \/ op.g # 0
  THEN s.clust[s.punt[op.i_clust] + j] ELSE j

\* The radii, the range and the root array of the tier of the last call.
Radii == IF op.name = "fstart" THEN s.fradii ELSE s.dradii
TierMin == IF op.name = "fstart" THEN DBL_MIN ELSE RDPE_MIN
TierMax == IF op.name = "fstart" THEN DBL_MAX ELSE RDPE_MAX
Roots == IF op.name = "fstart" THEN s.froot ELSE s.droot

\* C1: after a Placer call on a cluster of size n (polynomial not
\* user-defined), every slot of the cluster has been assigned an
\* approximation exactly once.
C1_EverySlotOnce ==
  (op.name \in Placers /\ s.data_type # "u") =>
     \A j \in 0..(op.n - 1) : s.asg[SlotRoot(j)] = 1

\* C2: on return from the Radii builder partitioning[0] = 0,
\* partitioning[n_radii] = n and partitioning[0..n_radii] is strictly
\* increasing.
C2_PartitionCovers ==
  (op.name \in Placers /\ s.data_type # "u") =>
     /\ s.partitioning[0] = 0
     /\ s.partitioning[s.n_radii] = op.n
     /\ \A i \in 0..(s.n_radii - 1) : s.partitioning[i] < s.partitioning[i + 1]

\* C3: every radius the Radii builder stores lies between the smallest
\* positive and the largest representable value of its tier.
C3_RadiiInRange ==
  (op.name \in Placers /\ s.data_type # "u") =>
     \A i \in 0..(s.n_radii - 1) : TierMin <= Radii[i] /\ Radii[i] <= TierMax

GroupStarts ==
  { st \in [0..(s.n_radii - 1) -> 0..(s.pre.nr - 1)] :
      /\ st[0] = 0
      /\ \A k \in 0..(s.n_radii - 2) : st[k] < st[k + 1] }

GroupEnd(st, k) == IF k = s.n_radii - 1 THEN s.pre.nr - 1 ELSE st[k + 1] - 1

C10_ExtremeIsX ==
  (op.name = "fstart" /\ s.data_type # "u") =>
     \A l \in DOMAIN s.froot :
        (s.asg[l] > 0 /\ s.froot[l].r \in {DBL_MIN, DBL_MAX}) => s.status[l] = "x"

\* The cluster-output test of the last double-tier call held for an annulus.
OutputFired ==
  /\ op.g # 0
  /\ \E i \in 0..(s.n_radii - 1) :
        s.fradii[i] * (s.partitioning[i + 1] - s.partitioning[i])
           <= (s.eps_out * op.g) \div ONE

\* C10 as amended: after a Placer call at the double tier every root that
\* was assigned an annulus radius equal to DBL_MIN or DBL_MAX carries 'x',
\* unless the cluster-output test of the same call held, which rewrites the
\* status of every root of the cluster to 'o'.
C10_ExtremeIsXOrOutput ==
  (op.name = "fstart" /\ s.data_type # "u") =>
     \A l \in DOMAIN s.froot :
        (s.asg[l] > 0 /\ s.froot[l].r \in {DBL_MIN, DBL_MAX}) =>
           \/ s.status[l] = "x"
           \/ s.status[l] = "o" /\ OutputFired

\* C10 witness: a call that has put a root on a circle of extreme radius
\* and left it marked 'x'.
C10_Witness ==
  /\ op.name = "fstart"
  /\ \E l \in DOMAIN s.froot :
        s.asg[l] > 0 /\ s.froot[l].r \in {DBL_MIN, DBL_MAX} /\ s.status[l] = "x"

\* The solve context of s with every scratch array as construction leaves it.
Clean == NewStatus(s.n, s.punt, s.data_type, s.random_seed, s.circle_relative_distance)

\* What the Radii builder of the tier of the last call returns for the
\* inputs of that call when it starts from the scratch arrays of Clean.
FromClean ==
  IF op.name = "mstart"
  THEN mps_mcompute_starting_radii(Clean, op.n, op.i_clust, op.clust_rad, op.g, op.fap)
  ELSE mps_dcompute_starting_radii(Clean, op.n, op.i_clust, op.clust_rad, op.g,
                                   s.eps_out, op.fap)

\* C5: the Radii builder is a function of its inputs only: whatever earlier
\* calls left in the scratch arrays, it returns the radii[0..n_radii),
\* partitioning[0..n_radii] and n_radii that the same inputs give on a
\* context no call has touched.
C5_FunctionOfInputs ==
  (op.name \in {"dstart", "mstart"} /\ s.data_type # "u") =>
     /\ s.n_radii = FromClean.n_radii
     /\ \A i \in 0..(s.n_radii - 1) : s.dradii[i] = FromClean.dradii[i]
     /\ \A i \in 0..s.n_radii : s.partitioning[i] = FromClean.partitioning[i]

\* The size of cluster j of the registry.
SizeOf(j) == s.punt[j + 1] - s.punt[j]

\* The calls made so far were for the clusters 0, 1, ..., k, in this order.
InRegistryOrder(k) ==
  /\ Len(hist) = k + 1
  /\ \A j \in 1..Len(hist) : hist[j] = j - 1

\* sum over j = 1..k of pi * m_{j-1} * gcd(m_{j-1}, m_j) / (4 * m_j)
RECURSIVE SigmaSum(_)
SigmaSum(k) ==
  IF k = 0 THEN 0
  ELSE SigmaSum(k - 1)
         + (PI * SizeOf(k - 1) * Gcd(SizeOf(k - 1), SizeOf(k))) \div (4 * SizeOf(k))

Shifts == {"fshift", "dshift", "mshift"}

\* The array in which the Shift of the last call has left the coefficients.
ShiftOut ==
  IF op.name = "fshift" THEN s.fppc
  ELSE IF op.name = "dshift" THEN s.dpc2 ELSE s.mfppc1

RECURSIVE Binom(_, _)
Binom(j, k) ==
  IF k = 0 \/ k = j THEN 1 ELSE Binom(j - 1, k - 1) + Binom(j - 1, k)

RECURSIVE CPow(_, _)
CPow(g, e) == IF e = 0 THEN Cx(1, 0) ELSE CMul(g, CPow(g, e - 1))

\* The coefficient of x^k of p(x + g): sum over j >= k of
\* p[j] * binomial(j, k) * g^(j - k).
RECURSIVE TaylorFrom(_, _, _, _, _)
TaylorFrom(p, n, k, g, j) ==
  IF j > n THEN CZero
  ELSE CAdd(CMul(CMul(p[j], Cx(Binom(j, k), 0)), CPow(g, j - k)),
            TaylorFrom(p, n, k, g, j + 1))

Taylor(p, n, k, g) == TaylorFrom(p, n, k, g, k)

\* C8: Shift leaves in entries 0..m of its output array the coefficients of
\* x^0..x^m of p(x + g); the m + 1 Horner divisions give them for every m
\* from 0 to n; for p = (x - 2)(x - 3)(x - 5), g = 10, m = 3 they are
\* (280, 131, 20, 1).
C8_ShiftIsTaylor ==
  op.name \in Shifts =>
     /\ \A k \in 0..op.n : ShiftOut[k] = Taylor(s.fpc, s.n, k, op.cg)
     /\ \A m \in 0..s.n : \A k \in 0..m :
           horner_divisions([c1 |-> s.fpc, out |-> s.fpc], 0, s.n, m, op.cg).out[k]
              = Taylor(s.fpc, s.n, k, op.cg)
     /\ (s.n = 3 /\ s.fpc = Example(3) /\ op.cg = Cx(10, 0) /\ op.n = 3) =>
           /\ ShiftOut[0] = Cx(280, 0) /\ ShiftOut[1] = Cx(131, 0)
           /\ ShiftOut[2] = Cx(20, 0) /\ ShiftOut[3] = Cx(1, 0)

\* C8 witness: the shift of (x - 2)(x - 3)(x - 5) in g = 10 with m = 3 done.
C8_Witness ==
  /\ op.name \in Shifts
  /\ s.fpc = Example(s.n)
  /\ op.cg = Cx(10, 0)
  /\ op.n = s.n
  /\ ShiftOut # s.fpc

\* C9: the Horner divisions with m = n and shift g, applied again with shift
\* -g to the coefficients they gave, return the coefficients of p.
C9_ShiftRoundTrip ==
  (op.name \in {"fshift", "dshift"} /\ op.n = s.n) =>
     horner_divisions([c1 |-> ShiftOut, out |-> ShiftOut], 0, s.n, s.n,
                      CNeg(op.cg)).out = s.fpc

\* C9 witness: a shift of all the n + 1 coefficients in a complex g that has
\* changed every coefficient but the leading one.
C9_Witness ==
  /\ op.name \in {"fshift", "dshift"}
  /\ op.n = s.n
  /\ op.cg = Cx(1, 1)
  /\ \A k \in 0..(s.n - 1) : ShiftOut[k] # s.fpc[k]

\* C7: the first Placer call of a Restart pass uses sigma = 0 and leaves
\* last_sigma = 0, whatever the registry index of the cluster it places.
C7_FirstPlacementResets ==
  (op.name = "frestart" /\ op.outcome = "shifted" /\ Len(hist) = 1) =>
     s.sigma = 0 /\ s.last_sigma = 0

(* ---------------------------------------------------- claims on Restart *)
Restarts == {"frestart", "drestart", "mrestart"}

\* The approximations, the inclusion radii and the status tags of the roots.
Published(st) ==
  [froot |-> st.froot, droot |-> st.droot, mroot |-> st.mroot,
   frad |-> st.frad, drad |-> st.drad, status |-> st.status]

\* Where the controller stands after a turn of loop1 that goes on with the
\* next cluster of the registry.
NextCluster ==
  IF pass.i + 1 >= s.nclust THEN NoPass ELSE [pass EXCEPT !.i = @ + 1]

\* C11: at every tier, a turn of loop1 whose Newton loop made max_newt_it
\* steps without convergence makes no Shift call, leaves the approximation,
\* the radius and the status of every root as they were, and the pass goes
\* on with the next cluster of the registry.
C11_NewtonExceededContinues ==
  [][ (op'.name \in Restarts /\ op'.outcome = "newton") =>
        /\ Published(s') = Published(s)
        /\ hist' = hist
        /\ pass' = NextCluster ]_vars
\* The roots of the cluster the turn of loop1 under way looks at.
Members(i) == { s.clust[j] : j \in s.punt[i]..(s.punt[i + 1] - 1) }

\* C12: in the multiprecision Restart, when the cluster radius that Shift
\* returns is not below a quarter of the super radius, every root of the
\* cluster has the mroot, the drad and the status it had before the Shift.
C12_FailedShiftUndone ==
  [][ (op'.name = "mrestart" /\ op'.outcome = "undone") =>
        \A l \in Members(pass.i) :
           /\ s'.mroot[l] = s.mroot[l]
           /\ s'.drad[l] = s.drad[l]
           /\ s'.status[l] = s.status[l] ]_vars

\* The cluster i goes beyond the eligibility step of loop1.
Eligible(i) == ~singleton(s, i) /\ looptst(s, i, 0) = "shift"

\* The cluster of the turn is skipped as not Newton isolated: its roots are
\* tagged 'c', nothing else of the roots changes, no Placer call is made.
SkippedAndTagged ==
  /\ op'.outcome = "near"
  /\ \A l \in Members(pass.i) : s'.status[l] = "c"
  /\ \A l \in DOMAIN s.status \ Members(pass.i) : s'.status[l] = s.status[l]
  /\ [Published(s') EXCEPT !.status = s.status] = Published(s)
  /\ hist' = hist

\* C13: in the multiprecision Restart, an eligible cluster that passes the
\* relative-width gate is skipped and tagged 'c' when the sum over the roots
\* p of the other clusters of sr / (|sc - root[p]| - sr - rad[p]) exceeds
\* 0.3, and always when it has three roots and another root lies at distance
\* 2 * sr from the super centre.
C13_NotIsolatedIsSkipped ==
  [][ (/\ op'.name = "mrestart" /\ op'.outcome # "entered"
       /\ Eligible(pass.i)
       /\ op'.clust_rad <= op'.scmod
       /\ \/ m_not_isolated(s, pass.i, op'.clust_rad, op'.dist)
          \/ /\ s.punt[pass.i + 1] - s.punt[pass.i] = 3
             /\ s.nclust > 1
             /\ op'.dist = 2 * op'.clust_rad)
      => SkippedAndTagged ]_vars

(* ------------------------------------------- more claims on the Placer *)
\* The inclusion radii of the tier of the last call.
InclRadii == IF op.name = "fstart" THEN s.frad ELSE s.drad

\* The roots of the cluster that the last Placer call was made on.
Placed == { s.clust[j] : j \in s.punt[op.i_clust]..(s.punt[op.i_clust + 1] - 1) }

\* r * n_i for the last annulus of the last call.
LastWidth ==
  Radii[s.n_radii - 1]
    * (s.partitioning[s.n_radii] - s.partitioning[s.n_radii - 1])

\* C14: after a Placer call on a cluster (g # 0) whose last annulus has
\* r * n_i <= eps * |g|, equality included, exactly the roots of the cluster
\* have status 'o' and inclusion radius r * n_i; the status and the
\* inclusion radius of the other roots are those of before the call ('c' and
\* 1.0 in a solve that has made no other call).
C14_OutputTest ==
  (/\ op.name \in Placers
   /\ op.g # 0
   /\ s.n_radii > 0
   /\ LastWidth <= (s.eps_out * op.g) \div ONE)
  => /\ \A l \in Placed : s.status[l] = "o" /\ InclRadii[l] = LastWidth
     /\ \A l \in DOMAIN s.status \ Placed :
           s.status[l] = "c" /\ InclRadii[l] = ONE

(* One Placer call in the solve of a user-defined polynomial. *)
InitUser ==
  /\ \E pu \in Registries(MaxN), crd \in Thresholds :
        s = NewStatus(MaxN, pu, "u", FALSE, crd)
  /\ op = [name |-> "init"]
  /\ ncalls = MaxCalls - 1
  /\ env = FineEnv
  /\ hist = << >>
  /\ pass = NoPass

NextUser == FStart \/ DStart \/ MStart

SpecUser == InitUser /\ [][NextUser]_vars

\* C15: on a user-defined polynomial a Placer call of any tier puts the
\* roots 0..n-1 on the points of the unit circle of angles 2 pi i / n + sigma
\* and changes nothing else: no radius is built, no status and no inclusion
\* radius is written.
C15_UserDefinedOnUnitCircle ==
  (op.name \in Placers /\ s.data_type = "u") =>
     /\ \A l \in 0..(op.n - 1) : Roots[l] = Polar(ONE, l, op.n, 0, op.n, s.sigma)
     /\ [s EXCEPT !.froot = Clean.froot, !.droot = Clean.droot,
                  !.last_sigma = Clean.last_sigma, !.sigma = Clean.sigma,
                  !.asg = Clean.asg] = Clean

(* ------------------------------------------------ more claims on Restart *)
\* Every cluster of the registry has one root.
AllSingletons == \A i \in 0..(s.nclust - 1) : s.punt[i + 1] - s.punt[i] = 1

\* C16: at every tier, each step of a Restart pass over a registry of
\* singletons, or on a user-defined polynomial, leaves every approximation,
\* inclusion radius, status tag and last_sigma as they were, and calls
\* neither the Newton collaborator nor Shift.
C16_SingletonsNoOp ==
  [][ (op'.name \in Restarts /\ (AllSingletons \/ s.data_type = "u")) =>
        /\ Published(s') = Published(s)
        /\ s'.last_sigma = s.last_sigma
        /\ op'.outcome \in {"entered", "single"}
        /\ hist' = << >> ]_vars

\* A multiprecision pass has gone through a registry of singletons.
C16_Witness ==
  /\ op.name = "mrestart" /\ op.outcome = "single"
  /\ pass = NoPass
  /\ AllSingletons

(* --------------------------------------------------- more claims on Shift *)
\* The first division of the last mps_mshift call as its do-while loop left
\* it: as = |c[0]| and the forward error bound ap.
FirstPass ==
  m_first_division(s,
     [mfpc1 |-> s.mfpc, mfppc1 |-> s.mfppc1, k |-> 0,
      mpwp_temp |-> s.mpwp, mpwp_max |-> s.mpwp, mp_ep |-> s.mpwp,
      as |-> 0, ap |-> ONE], op.n, op.cg, op.g)

\* C17: when the multiprecision Shift ends with |c[0]| still below the
\* forward error bound, every modulus dap1[0..m] that it hands to the Placer
\* is |c[0]|.
C17_ExhaustedMeansUniform ==
  (op.name = "mshift" /\ FirstPass.as < FirstPass.ap) =>
     \A j \in 0..op.n : op.fap[j] = cplx_mod(s.mfppc1[0])

(* ------------------------------------------------------ claims on horner *)
\* The sum over k = 0..j of p->mfpc[k] * x^k.
RECURSIVE PolySum(_, _, _)
PolySum(p, x, j) ==
  IF j < 0 THEN CZero
  ELSE CAdd(CMul(p.mfpc[j], CPow(x, j)), PolySum(p, x, j - 1))

\* C18: mps_mhorner and mps_mhorner_with_error store in value the sum over
\* j = 0..p->n of p->mfpc[j] * x^j, whatever the polynomial p and the point x
\* and whatever else the status holds.
C18_HornerEvaluates ==
  (op.name \in {"mhorner", "mhorner_with_error"}) =>
     op.value = PolySum(op.p, op.x, op.p.n)

(* ----------------------------------------- claims on the gates of Restart *)
\* The outcomes of a turn of loop1 that stops at the eligibility step or
\* before it.
NotBeyond == {"entered", "single", "again", "keep"}

\* C19: at every tier, a turn of loop1 goes beyond the eligibility step only
\* for a cluster all of whose members have again = true and one of whose
\* members has status 'c' and is not yet isolated ('u'; also 'i' when the
\* goal is not count), wherever the members sit in the cluster.
C19_Eligibility ==
  [][ (op'.name \in Restarts /\ op'.outcome \notin NotBeyond) =>
        /\ \A l \in Members(pass.i) : s.again[l]
        /\ \E l \in Members(pass.i) :
              /\ s.status[l] = "c"
              /\ \/ s.incl[l] = "u"
                 \/ s.goal # "c" /\ s.incl[l] = "i" ]_vars

\* The inclusion radii that the tier of the pass under way reads.
PassRad == IF pass.name = "frestart" THEN s.frad ELSE s.drad

\* C20: at the double and the DPE tier, a cluster that reaches the Newton
\* isolation test while a root p of another cluster has
\* |sc - root[p]| < (sr + rad[p]) * 5 * n is not shifted: its members are
\* tagged 'c' and the turn ends there.
C20_IsolationFactorFive ==
  [][ (/\ op'.name \in {"frestart", "drestart"}
       /\ op'.outcome \notin (NotBeyond \cup {"large"})
       /\ \E l \in DOMAIN s.status \ Members(pass.i) :
             op'.dist < (op'.clust_rad + PassRad[l]) * 5 * s.n)
      => /\ op'.outcome = "near"
         /\ \A l \in Members(pass.i) : s'.status[l] = "c"
         /\ hist' = hist ]_vars


(* ------------------------------------------------- more claims on Restart *)
\* C21: at every tier, a turn of loop1 on an eligible cluster whose super
\* radius exceeds the modulus of its super centre tags 'c' the roots of the
\* cluster and no other root, changes no approximation and no inclusion
\* radius, calls neither Newton nor Shift, and the pass goes on with the
\* next cluster.
C21_RelativelyLargeIsTagged ==
  [][ (/\ op'.name \in Restarts
       /\ op'.outcome # "entered"
       /\ Eligible(pass.i)
       /\ op'.clust_rad > op'.scmod) =>
        /\ op'.outcome = "large"
        /\ \A l \in Members(pass.i) : s'.status[l] = "c"
        /\ \A l \in DOMAIN s.status \ Members(pass.i) : s'.status[l] = s.status[l]
        /\ [Published(s') EXCEPT !.status = s.status] = Published(s)
        /\ hist' = hist
        /\ pass' = NextCluster ]_vars

\* A relatively large cluster has been tagged, an isolated root of another
\* cluster is as it was, and the pass goes on.
C21_Witness ==
  /\ op.name \in Restarts /\ op.outcome = "large"
  /\ pass.name # "none"
  /\ \E l \in DOMAIN s.status : s.status[l] = "i"
  /\ \E l \in DOMAIN s.status : l % 2 = 0 /\ s.status[l] = "c"

(* --------------------------------------- the precision of the mp. Shift *)
\* C22: in the multiprecision Shift, a first division at the base precision
\* mpwp that fails the test |c[0]| >= ap is followed by a second one at the
\* precision 2 * mpwp whenever 2 * mpwp does not exceed prec_out * m * 2:
\* the loop ends after one failing division only when the cap is below
\* 2 * mpwp.
C22_FailedPassRetried ==
  (op.name = "mshift" /\ FirstPass.k = 1 /\ FirstPass.as < FirstPass.ap) =>
     2 * s.mpwp > s.prec_out * op.n * 2

\* C23: a call of the multiprecision Shift returns with the gravity centre
\* g and all the scratch coefficients mfpc1[0..n], mfppc1[0..n] at the
\* precision s->mpwp of the entry, and with s->mpwp as it was.
C23_PrecisionRestored ==
  [][ op'.name = "mshift" =>
        /\ s'.mpwp = s.mpwp
        /\ s'.prec = Precisions(s.n, s.mpwp) ]_vars

\* A Shift whose first division failed, so that the loop asked for twice
\* the base precision, has returned.
C23_Witness ==
  /\ op.name = "mshift"
  /\ FirstPass.as < FirstPass.ap
  /\ FirstPass.mpwp_temp = 2 * s.mpwp
  /\ s.prec = Precisions(s.n, s.mpwp)

(* ------------------------------------------- more claims on the radii *)
\* C24: a compaction step that merges the annuli i..j-1 stores the
\* arithmetic mean of their radii; in particular the first surviving annulus
\* has the mean of the radii 0..j-1 found on the hull, j being the first
\* index whose relative distance from radii[0] exceeds delta, or n_radii.
C24_MergedIsMean ==
  (op.name \in {"fstart", "dstart"} /\ s.data_type # "u" /\ s.pre.nr >= 1) =>
     LET j == scan_near(s.pre.rad, s.circle_relative_distance, 0, 1, s.pre.nr)
     IN  Radii[0] = SumRange(s.pre.rad, 0, j - 1) \div j

(* -------------------------------------------- the rewrite after a Shift *)
\* The approximation, the inclusion radius of the root l at the tier of the
\* pass under way, and twice the machine epsilon of that tier.
TierRoot(st, l) == IF pass.name = "frestart" THEN st.froot[l]
                   ELSE IF pass.name = "drestart" THEN st.droot[l] ELSE st.mroot[l]

TierRad(st, l) == IF pass.name = "frestart" THEN st.frad[l] ELSE st.drad[l]

TierFloor(ag) == IF pass.name = "mrestart" THEN (ag * 2 * 2) \div Pow2(s.mpwp)
                 ELSE (ag * DBL_EPSILON * 2) \div ONE

\* The point that the rewrite of the turn translated by g into the
\* approximation of the root l.
ShiftedPoint(l) == [TierRoot(s', l) EXCEPT !.c = CAdd(@, CNeg(op'.cg))]

\* C25: after a turn of loop1 that has shifted a cluster of m roots to the
\* gravity centre g, every root of the cluster is the point it had in the
\* shifted coordinates translated by g (a point of a circle about g, when
\* the Placer has placed it), and its inclusion radius is
\* max(2 m |that point|, 2 |g| eps_machine).
C25_RewriteAfterShift ==
  [][ (op'.name \in Restarts /\ op'.outcome = "shifted") =>
        \A l \in Members(pass.i) :
           /\ s'.asg[l] >= 1 => TierRoot(s', l).c = op'.cg
           /\ TierRad(s', l) =
                 Max(2 * (s.punt[pass.i + 1] - s.punt[pass.i]) * root_mod(ShiftedPoint(l)),
                     TierFloor(cplx_mod(op'.cg))) ]_vars

(* The Radii builders on the masks that the hull collaborator may hand them:
   any marking of the indices 0..n. *)
InitHull ==
  /\ \E pu \in Registries(MaxN), crd \in Thresholds :
        s = NewStatus(MaxN, pu, "d", FALSE, crd)
  /\ op = [name |-> "init"]
  /\ ncalls = MaxCalls - 1
  /\ env = CoarseEnv
  /\ hist = << >>
  /\ pass = NoPass

\* The mask h after a call of the hull on the indices 0..n.
WithHull(st, n, mask) ==
  [st EXCEPT !.h = [i \in DOMAIN st.h |-> IF i <= n THEN mask[i] ELSE st.h[i]]]

\* mps_fcompute_starting_radii, the hull having returned mask.
FRadii ==
  /\ ncalls < MaxCalls
  /\ \E a \in PlacerArgs :
       \E fap \in Moduli(a), mask \in [0..a.n -> BOOLEAN] :
            /\ s' = f_radii_of_hull(
                      WithHull(fill_fap2(s, a.n, fap, f_null_log(a.n, a.g, fap)),
                               a.n, mask),
                      a.n, a.clust_rad)
            /\ op' = Called("fradii", a, fap)
  /\ ncalls' = ncalls + 1
  /\ UNCHANGED <<env, hist, pass>>

\* mps_mcompute_starting_radii, the hull having returned mask.
MRadii ==
  /\ ncalls < MaxCalls
  /\ \E a \in PlacerArgs :
       \E dap \in Moduli(a), mask \in [0..a.n -> BOOLEAN] :
            /\ s' = m_radii_of_hull(WithHull(m_fill_fap2(s, a.n, dap), a.n, mask),
                                    a.n, a.clust_rad)
            /\ op' = Called("mradii", a, dap)
  /\ ncalls' = ncalls + 1
  /\ UNCHANGED <<env, hist, pass>>

NextHull == FRadii \/ MRadii

SpecHull == InitHull /\ [][NextHull]_vars

Unclamped ==
  IF op.name = "fstart"
  THEN mps_fcompute_starting_radii(s, op.n, op.i_clust, DBL_MAX, op.g,
                                   s.eps_out, op.fap).pre
  ELSE IF op.name = "dstart"
  THEN mps_dcompute_starting_radii(s, op.n, op.i_clust, RDPE_MAX, op.g,
                                   s.eps_out, op.fap).pre
  ELSE mps_mcompute_starting_radii(s, op.n, op.i_clust, RDPE_MAX, op.g, op.fap).pre

\* C27: the cluster clamp of the Radii builder applies only when clust_rad
\* is not zero: with clust_rad = 0 every radius stored before the
\* compaction is the range-clamped radius of the hull (it is 0 only if
\* that radius is 0), and with clust_rad # 0 none exceeds clust_rad.
C27_ClampOnlyInCluster ==
  (op.name \in Placers /\ s.data_type # "u") =>
     IF op.clust_rad = 0
     THEN \A i \in 0..(s.pre.nr - 1) :
             s.pre.rad[i] = 0 => Unclamped.rad[i] = 0
     ELSE \A i \in 0..(s.pre.nr - 1) : s.pre.rad[i] <= op.clust_rad

(* ------------------------------------------- the DPE Placer after float *)
(* The float phase followed by the DPE phase: mps_fstart marks 'x' the roots
   that it cannot represent, and the call of mps_dstart that follows finds
   them. *)
InitAfterFloat ==
  /\ \E pu \in Registries(MaxN), crd \in Thresholds :
        s = NewStatus(MaxN, pu, "d", FALSE, crd)
  /\ op = [name |-> "init"]
  /\ ncalls = 0
  /\ env = FineEnv
  /\ hist = << >>
  /\ pass = NoPass

\* The arguments of the Placer call that begins a phase: all the roots, no
\* cluster radius, no gravity centre.
Fresh == [n |-> s.n, i_clust |-> 0, clust_rad |-> 0, g |-> 0]

\* The float phase begins: mps_fstart on the moduli of the polynomial.
FloatPhase ==
  /\ ncalls = 0
  /\ \E rnd \in Rands, fap \in Moduli(Fresh) :
        /\ s' = mps_fstart(NoAsg(s), Fresh.n, Fresh.i_clust, Fresh.clust_rad,
                           Fresh.g, s.eps_out, fap, rnd)
        /\ op' = Called("fstart", Fresh, fap)
  /\ ncalls' = ncalls + 1
  /\ hist' = Append(hist, 0)
  /\ UNCHANGED <<env, pass>>

\* The DPE phase begins: mps_dstart on the moduli of the same polynomial.
DpePhase ==
  /\ ncalls = 1
  /\ op.name = "fstart"
  /\ \E rnd \in Rands, oob \in env.oobs :
        s' = mps_dstart(NoAsg(s), Fresh.n, Fresh.i_clust, Fresh.clust_rad,
                        Fresh.g, s.eps_out, op.fap, rnd, oob)
  /\ op' = Called("dstart", Fresh, op.fap)
  /\ ncalls' = ncalls + 1
  /\ hist' = Append(hist, 0)
  /\ UNCHANGED <<env, pass>>

NextAfterFloat == FloatPhase \/ DpePhase

SpecAfterFloat == InitAfterFloat /\ [][NextAfterFloat]_vars

\* C28: a DPE-tier Placer call that finds some root with status 'x' gives
\* every root that had status 'x' a new approximation, with status 'f' if
\* its annulus radius is RDPE_MIN or RDPE_MAX and 'c' otherwise, and leaves
\* the approximation of every other root as it was.
C28_AfterFloat ==
  [][ (/\ op'.name = "dstart"
       /\ \E l \in DOMAIN s.status : s.status[l] = "x")
      => \A l \in DOMAIN s.status :
            IF s.status[l] = "x"
            THEN /\ s'.asg[l] = 1
                 /\ s'.status[l] =
                      IF s'.droot[l].r \in {RDPE_MIN, RDPE_MAX} THEN "f" ELSE "c"
            ELSE s'.droot[l] = s.droot[l] ]_vars

(* --------------------------------------------- what a Restart pass leaves *)
\* The approximations, the inclusion radii and the status tag of the root l.
RootOf(st, l) ==
  [froot |-> st.froot[l], droot |-> st.droot[l], mroot |-> st.mroot[l],
   frad |-> st.frad[l], drad |-> st.drad[l], status |-> st.status[l]]

\* The roots that the turn of loop1 under way may change: the members of its
\* cluster, when the cluster goes beyond the eligibility step.
MayChange == IF Eligible(pass.i) THEN Members(pass.i) ELSE {}

\* C29: a turn of loop1 of a Restart pass changes the approximation, the
\* inclusion radius or the status of a root only if the root is a member of
\* the cluster of the turn and the cluster is eligible (size > 1, gated or
\* shifted); the roots of every other cluster are after the turn as before
\* it, and clust, punt and nclust are not modified.
C29_OnlyTheClusterChanges ==
  [][ (op'.name \in Restarts /\ pass.name # "none") =>
        /\ \A l \in DOMAIN s.status \ MayChange : RootOf(s', l) = RootOf(s, l)
        /\ s'.clust = s.clust
        /\ s'.punt = s.punt
        /\ s'.nclust = s.nclust ]_vars

(* ------------------------------------------------------ the newtis pass *)
(* One pass of mps_mnewtis over the clusters of a polynomial of degree
   PassN, whatever its registry. *)
\* The roots at the beginning of the pass: as at the beginning of a Restart
\* pass, or all of them approximated already.
NewtisPatterns(n) ==
  PassPatterns(n)
  \cup { [l \in 0..(n - 1) |-> [status |-> "a", incl |-> "i", again |-> TRUE]] }

InitNewtis ==
  /\ \E pu \in Registries(PassN), p \in PassPolys(PassN),
        kinds \in NewtisPatterns(PassN), rad \in PassRadii, dt \in {"d", "u"} :
        /\ dt = "u" => /\ p = UnitPoly(PassN)
                       /\ \A l \in 0..(PassN - 1) : kinds[l].again
        /\ s = WithRadii(WithRoots(WithPoly(
                   NewStatus(PassN, pu, dt, FALSE, [num |-> 1, den |-> 1]), p),
                   kinds, "a"), rad)
  /\ op = [name |-> "init"]
  /\ ncalls = MaxCalls - 1
  /\ env = PassEnv
  /\ hist = << >>
  /\ pass = NoPass

\* mps_mnewtis is entered.
MNewtis ==
  /\ pass.name = "none"
  /\ ncalls < MaxCalls
  /\ pass' = IF s.data_type = "u" THEN NoPass ELSE [name |-> "mnewtis", i |-> 0]
  /\ op' = [name |-> "mnewtis", outcome |-> "entered"]
  /\ hist' = << >>
  /\ ncalls' = ncalls + 1
  /\ UNCHANGED <<s, env>>

\* One turn of loop1 of mps_mnewtis.
MNewtisTurn(r, scmod, sr, dist) ==
  /\ s' = r.s
  /\ op' = [name |-> "mnewtis", outcome |-> r.outcome, i_clust |-> pass.i,
            clust_rad |-> sr, dist |-> dist, scmod |-> scmod]
  /\ hist' = IF r.outcome = "isolated" THEN Append(hist, pass.i) ELSE hist
  /\ pass' = IF pass.i + 1 >= s.nclust THEN NoPass ELSE [pass EXCEPT !.i = @ + 1]

MNewtisCluster ==
  /\ pass.name = "mnewtis"
  /\ \E scmod \in env.scmods, sr \in env.srs, dist \in env.dists :
       MNewtisTurn(mnewtis_cluster(s, pass.i,
                                   [scmod |-> scmod, sr |-> sr, dist |-> dist]),
                   scmod, sr, dist)
  /\ UNCHANGED <<ncalls, env>>

NextNewtis == MNewtis \/ MNewtisCluster

SpecNewtis == InitNewtis /\ [][NextNewtis]_vars

\* What one turn of loop1 of mps_mrestart does with the cluster of the turn
\* under way, in the state and with the geometry of the turn of mps_mnewtis.
RestartOutcome(geo) ==
  mrestart_cluster(NoAsg(s), pass.i, geo, "converged", Cx(1, 0), 0, 5, ONE).outcome

\* The cluster goes through the eligibility step and the two gates of
\* mps_mrestart.
PassesRestartGates(geo) ==
  RestartOutcome(geo) \notin {"single", "again", "keep", "large", "near"}

\* The turn of mps_mnewtis agrees with mps_mrestart on the outcome out.
AgreesWithRestart(out) ==
  /\ s'.newtis = (IF s.newtis = 1 \/ out \notin {"single", "again", "keep", "large", "near"}
                  THEN 1 ELSE 0)
  /\ \A l \in DOMAIN s.status :
        s'.status[l] = IF l \in Members(pass.i) /\ out \in {"large", "near"}
                       THEN "c" ELSE s.status[l]
  /\ [Published(s') EXCEPT !.status = s.status] = Published(s)
  /\ s'.clust = s.clust /\ s'.punt = s.punt /\ s'.nclust = s.nclust

\* C30: a turn of loop1 of mps_mnewtis (polynomial not user-defined) sets
\* newtis to 1 if and only if its cluster goes through the eligibility test,
\* the relative-width gate and the Newton-isolation test that mps_mrestart
\* applies in the same state with the same super centre and super radius;
\* it tags 'c' exactly the members of an eligible cluster that fails one of
\* the two gates, and changes no approximation, no inclusion radius and no
\* entry of the registry.  A pass that starts with newtis = 0 so ends with
\* newtis = 1 if and only if some cluster went through.
C30_NewtisAsRestart ==
  [][ (op'.name = "mnewtis" /\ pass.name = "mnewtis") =>
        /\ AgreesWithRestart(RestartOutcome([scmod |-> op'.scmod,
                                             sr |-> op'.clust_rad,
                                             dist |-> op'.dist]))
        /\ (s'.newtis = 1) = (hist' # << >>) ]_vars

\* C30 witness: a pass of mps_mnewtis is over, it has tagged 'c' the roots of
\* a cluster that is not Newton isolated or relatively large and has found
\* another cluster that mps_mrestart would shift.
C30_Witness ==
  /\ op.name = "mnewtis"
  /\ pass = NoPass
  /\ s.newtis = 1
  /\ s.nclust = 2
  /\ hist = <<1>>
  /\ \E l \in DOMAIN s.status : s.status[l] = "c" /\ s.incl[l] = "i"

====
